---- MODULE Spec2Model ----
(***************************************************************************)
(* Model of the GDTools image compiler (utils/color_extractor.py) and of   *)
(* its GUI caller (color.py).                                              *)
(*                                                                         *)
(* An image is the decoded RGBA raster that PIL hands to the code:         *)
(*   [readable, width, height, pixels]  with pixels in row-major order     *)
(* (the order of Image.getdata()), a pixel being <<r, g, b, a>>.           *)
(* World coordinates are multiples of 7.5; they are kept exactly, in       *)
(* half units (x_pos = 7.5 * col is stored as 15 * col).                   *)
(* A Python dict is a record; a key the code leaves out of the dict is     *)
(* left out of the record's DOMAIN.                                        *)
(***************************************************************************)
EXTENDS Integers, Sequences, FiniteSets, TLC

\* ---------------------------------------------------------------- bounds
\* The largest number of pixels of an exhaustively enumerated image.
MaxPixels == 4

\* ------------------------------------------------------ program constants
MaxColors == 512
MaxStartId == 999
OpaqueAlpha == 255
HalfStep == 15

\* ---------------------------------------------------------------- inputs
Black == <<0, 0, 0>>
White == <<255, 255, 255>>
Grey == <<10, 20, 30>>

PixelValues ==
    { <<0, 0, 0, 255>>, <<255, 255, 255, 255>>, <<10, 20, 30, 255>>,
      <<10, 20, 30, 128>> }

ImageSizes ==
    { wh \in (1..MaxPixels) \X (1..MaxPixels) : wh[1] * wh[2] <= MaxPixels }

SmallImages ==
    UNION { { [readable |-> TRUE, width |-> wh[1], height |-> wh[2],
               pixels |-> p] :
                p \in [1..(wh[1] * wh[2]) -> PixelValues] } :
            wh \in ImageSizes }

\* A one-row image of k pixels carrying k distinct opaque colors, stored in
\* descending color order, followed by one half-transparent pixel.
BigColorCounts == {512, 513}

BigPixel(k, i) ==
    IF i = k + 1 THEN <<0, 0, 0, 128>>
    ELSE <<(k - i) \div 256, (k - i) % 256, 7, 255>>

BigImage(k) ==
    [readable |-> TRUE, width |-> k + 1, height |-> 1,
     pixels |-> [i \in 1..(k + 1) |-> BigPixel(k, i)]]

BigImages == { BigImage(k) : k \in BigColorCounts }

\* A path that PIL cannot open as an image.
UnreadableImage ==
    [readable |-> FALSE, width |-> 0, height |-> 0, pixels |-> <<>>]

Images == SmallImages \cup BigImages \cup {UnreadableImage}

StartIds == {-1, 0, 1, 2, 3, 4, 512, 513, 999, 1000}

\* The output file before the call: missing (with or without its parent
\* directory) or left over from an earlier run.
NoFile == [dir |-> FALSE, exists |-> FALSE, lines |-> <<>>]
EmptyDir == [dir |-> TRUE, exists |-> FALSE, lines |-> <<>>]
OldFile == [dir |-> TRUE, exists |-> TRUE, lines |-> <<[kind |-> "old"]>>]
InitialFiles == {NoFile, OldFile}

\* ------------------------------------------------------- Python built-ins
\* A list or a dict holds computed values: list(s) and dict(f) are s and f
\* themselves, tabulated once.
list(s) == s \o <<>>

dict(f) == f @@ <<>>

\* A loop is walked half by half; the first half has run to its end, and
\* left its variables in st, before the second half starts.
Ran(st) == st = st

\* Tuple comparison of Python: lexicographic on (r, g, b).
TupleLess(c, d) ==
    \/ c[1] < d[1]
    \/ c[1] = d[1] /\ c[2] < d[2]
    \/ c[1] = d[1] /\ c[2] = d[2] /\ c[3] < d[3]

\* sorted(list(S)) for a set S of tuples.
sorted(S) ==
    LET rank == dict([c \in S |-> Cardinality({d \in S : TupleLess(d, c)})])
    IN  list([i \in 1..Cardinality(S) |-> CHOOSE c \in S : rank[c] = i - 1])

\* list(reversed(s))
reversed(s) == list([i \in 1..Len(s) |-> s[Len(s) + 1 - i]])

\* list(range(hi, lo - 1, -1)): hi, hi-1, ..., lo; empty when hi < lo.
range_down(hi, lo) ==
    IF hi < lo THEN <<>> ELSE list([i \in 1..(hi - lo + 1) |-> hi + 1 - i])

\* ------------------------------------------- extract_colors_from_image
\* The test of line 60: a pixel is kept only when fully opaque.
IsOpaque_any_alpha(pixel) == pixel[4] > 0

IsOpaque(pixel) == pixel[4] = OpaqueAlpha

RGB(pixel) == <<pixel[1], pixel[2], pixel[3]>>

unique_colors(img) ==
    { RGB(img.pixels[i]) : i \in { j \in 1..Len(img.pixels) : IsOpaque(img.pixels[j]) } }

transparent_count(img) ==
    Cardinality({ i \in 1..Len(img.pixels) : ~IsOpaque(img.pixels[i]) })

\* The check of line 68.
TooManyColors_at_limit(color_count) == color_count >= MaxColors

TooManyColors(color_count) == color_count > MaxColors

extract_colors_from_image(img) ==
    IF ~img.readable
    THEN [success |-> FALSE, error |-> <<"cannot_open_image">>]
    ELSE LET color_count == Cardinality(unique_colors(img))
         IN  IF TooManyColors(color_count)
             THEN [success |-> FALSE,
                   error |-> <<"too_many_colors", color_count>>,
                   color_count |-> color_count]
             ELSE [success |-> TRUE,
                   colors |-> sorted(unique_colors(img)),
                   color_count |-> color_count,
                   transparent_count |-> transparent_count(img),
                   width |-> img.width,
                   height |-> img.height,
                   image |-> img]

\* ------------------------------------------- generate_color_id_mapping
ids_final_not_reversed(color_count, start_id) ==
    range_down(start_id, start_id - color_count + 1)

ids_final(color_count, start_id) ==
    LET end_id == start_id - color_count + 1
        ids_descending == range_down(start_id, end_id)
    IN  reversed(ids_descending)

\* The loop of lines 120-121 over colors[lo..hi], in order (the range is
\* walked half by half): color_to_id[color] = ids[i] sets or overwrites.
RECURSIVE fill_color_to_id(_, _, _, _, _)
fill_color_to_id(colors, ids, lo, hi, color_to_id) ==
    IF lo > hi THEN color_to_id
    ELSE IF lo = hi THEN (colors[lo] :> ids[lo]) @@ color_to_id
    ELSE LET mid == (lo + hi) \div 2
             first == fill_color_to_id(colors, ids, lo, mid, color_to_id)
         IN  IF Ran(first)
             THEN fill_color_to_id(colors, ids, mid + 1, hi, first)
             ELSE first

generate_color_id_mapping_one_lower(colors, start_id) ==
    fill_color_to_id(colors, ids_final(Len(colors), start_id - 1),
                     1, Len(colors), <<>>)

generate_color_id_mapping(colors, start_id) ==
    fill_color_to_id(colors, ids_final(Len(colors), start_id),
                     1, Len(colors), <<>>)

\* ------------------------------------------------- generate_color_data
ColorLine(color, color_id) ==
    [kind |-> "color", r |-> color[1], g |-> color[2], b |-> color[3],
     color_id |-> color_id]

generate_color_data(colors, color_to_id) ==
    list([i \in 1..Len(colors) |->
            ColorLine(colors[i], color_to_id[colors[i]])])

\* ------------------------------------------------------- format_number
\* value is given in half units. str(int(value)) when value == int(value),
\* else "%.6f": the integer part followed by the six decimals of one half.
format_number_always_decimals(value2) ==
    IF value2 % 2 = 0
    THEN [whole |-> value2 \div 2, decimals |-> "000000"]
    ELSE [whole |-> value2 \div 2, decimals |-> "500000"]

format_number(value2) ==
    IF value2 % 2 = 0
    THEN [whole |-> value2 \div 2, decimals |-> ""]
    ELSE [whole |-> value2 \div 2, decimals |-> "500000"]

\* ------------------------------------------------- generate_block_data
getpixel(img, col, row) == img.pixels[row * img.width + col + 1]

x_pos(col) == col * HalfStep

y_pos_not_flipped(height, row) == row * HalfStep

y_pos(height, row) == (height - 1 - row) * HalfStep

Block(img, height, col, row) ==
    [row |-> row, col |-> col, x_pos |-> x_pos(col),
     y_pos |-> y_pos(height, row), color |-> RGB(getpixel(img, col, row))]

\* The nested loops of lines 175-194: rows outermost, columns innermost,
\* one block appended per opaque pixel.
scan_blocks_any_visible(img, width, height) ==
    LET kept == { k \in 0..(width * height - 1) :
                    getpixel(img, k % width, k \div width)[4] # 0 }
        index == dict([k \in kept |-> Cardinality({ j \in kept : j < k })])
    IN  list([n \in 1..Cardinality(kept) |->
            LET at == CHOOSE k \in kept : index[k] = n - 1
            IN  Block(img, height, at % width, at \div width)])

scan_blocks(img, width, height) ==
    LET kept == { k \in 0..(width * height - 1) :
                    IsOpaque(getpixel(img, k % width, k \div width)) }
        index == dict([k \in kept |-> Cardinality({ j \in kept : j < k })])
    IN  list([n \in 1..Cardinality(kept) |->
            LET at == CHOOSE k \in kept : index[k] = n - 1
            IN  Block(img, height, at % width, at \div width)])

\* The sort key of line 198, (-y_pos, x_pos), compared as Python tuples.
KeyLess_ascending(a, b) ==
    \/ a.y_pos < b.y_pos
    \/ a.y_pos = b.y_pos /\ a.x_pos < b.x_pos

KeyLess(a, b) ==
    \/ -a.y_pos < -b.y_pos
    \/ a.y_pos = b.y_pos /\ a.x_pos < b.x_pos

KeyEqual(a, b) == a.y_pos = b.y_pos /\ a.x_pos = b.x_pos

\* list.sort(key=...) is stable: equal keys keep their relative order.
sort_blocks(blocks) ==
    LET n == Len(blocks)
        place == list([i \in 1..n |->
                    Cardinality({ j \in 1..n :
                        \/ KeyLess(blocks[j], blocks[i])
                        \/ KeyEqual(blocks[j], blocks[i]) /\ j < i })])
    IN  list([p \in 1..n |-> blocks[CHOOSE i \in 1..n : place[i] = p - 1]])

\* One pass of the body of the loop of lines 205-208; st holds the two
\* variables the loop updates.
see_color_always_new(st, color) ==
    [color_to_sequence |->
         (color :> st.next_sequence) @@ st.color_to_sequence,
     next_sequence |-> st.next_sequence + 1]

see_color(st, color) ==
    IF color \notin DOMAIN st.color_to_sequence
    THEN [color_to_sequence |->
              (color :> st.next_sequence) @@ st.color_to_sequence,
          next_sequence |-> st.next_sequence + 1]
    ELSE st

\* The loop of lines 205-208 over blocks[lo..hi], in order (the range is
\* walked half by half).
RECURSIVE assign_sequences(_, _, _, _)
assign_sequences(blocks, lo, hi, st) ==
    IF lo > hi THEN st
    ELSE IF lo = hi THEN see_color(st, blocks[lo].color)
    ELSE LET mid == (lo + hi) \div 2
             first == assign_sequences(blocks, lo, mid, st)
         IN  IF Ran(first)
             THEN assign_sequences(blocks, mid + 1, hi, first)
             ELSE first

BlockLine(block, color_sequence, color_id) ==
    [kind |-> "block",
     x_pos_str |-> format_number(block.x_pos),
     y_pos_str |-> format_number(block.y_pos),
     color_sequence |-> color_sequence,
     color_id |-> color_id]

\* color_to_id[color] of line 214 raises KeyError for a color without ID.
LookupMisses(blocks, color_to_id) ==
    \E i \in 1..Len(blocks) : blocks[i].color \notin DOMAIN color_to_id

generate_block_data(img, width, height, color_to_id) ==
    LET blocks == sort_blocks(scan_blocks(img, width, height))
        color_to_sequence ==
            assign_sequences(blocks, 1, Len(blocks),
                [color_to_sequence |-> <<>>, next_sequence |-> 1]
            ).color_to_sequence
    IN  IF LookupMisses(blocks, color_to_id)
        THEN [raised |-> "KeyError", blocks |-> blocks,
              color_to_sequence |-> color_to_sequence, result |-> <<>>]
        ELSE [raised |-> "", blocks |-> blocks,
              color_to_sequence |-> color_to_sequence,
              result |-> list([i \in 1..Len(blocks) |->
                            BlockLine(blocks[i],
                                      color_to_sequence[blocks[i].color],
                                      color_to_id[blocks[i].color])])]

\* --------------------------------------------------------- write_to_file
HeaderLine == [kind |-> "HEADER_PREFIX"]
SuffixLine == [kind |-> "COLOR_SUFFIX"]

file_text_blocks_first(color_data, block_data) ==
    <<HeaderLine>> \o block_data \o <<SuffixLine>> \o color_data

file_text(color_data, block_data) ==
    <<HeaderLine>> \o color_data \o <<SuffixLine>> \o block_data

write_to_file(file, color_data, block_data) ==
    [dir |-> TRUE, exists |-> TRUE, lines |-> file_text(color_data, block_data)]

\* --------------------------------------------------------- process_image
None == [none |-> TRUE]

\* The checks of lines 274 and 280.
StartIdTooLarge(start_id) == start_id > MaxStartId

StartIdTooSmall_strict(start_id, color_count) == start_id < color_count

StartIdTooSmall(start_id, color_count) == start_id <= color_count

\* What a call leaves behind: the returned dict (or the exception that
\* escaped), the output file, and the values of the locals.
Outcome(extract_result, result, raised, file, colors_list, color_to_id, color_data, gen) ==
    [extract_result |-> extract_result,
     result |-> result, raised |-> raised, output_file |-> file,
     colors_list |-> colors_list, color_to_id |-> color_to_id,
     color_data |-> color_data, blocks |-> gen.blocks,
     color_to_sequence |-> gen.color_to_sequence, block_data |-> gen.result]

NotRun == [raised |-> "", blocks |-> <<>>, color_to_sequence |-> <<>>,
           result |-> <<>>]

process_image_opening_output_first(img, start_id, file) ==
    LET extract_result == extract_colors_from_image(img)
    IN  IF ~extract_result.success
        THEN Outcome(extract_result, extract_result, "", file,
                     <<>>, <<>>, <<>>, NotRun)
        ELSE
        LET colors_list == extract_result.colors
            color_count == extract_result.color_count
        IN  IF StartIdTooLarge(start_id)
            THEN Outcome(extract_result,
                         [success |-> FALSE,
                          error |-> <<"start_id_exceeds_max", start_id>>],
                         "", file, colors_list, <<>>, <<>>, NotRun)
            ELSE IF StartIdTooSmall(start_id, color_count)
            THEN Outcome(extract_result,
                         [success |-> FALSE,
                          error |-> <<"start_id_not_above_color_count",
                                      start_id, color_count>>,
                          color_count |-> color_count],
                         "", [dir |-> TRUE, exists |-> TRUE, lines |-> <<>>],
                         colors_list, <<>>, <<>>, NotRun)
            ELSE
            LET color_to_id == generate_color_id_mapping(colors_list, start_id)
                color_data == generate_color_data(colors_list, color_to_id)
                gen == generate_block_data(extract_result.image,
                                           extract_result.width,
                                           extract_result.height, color_to_id)
            IN  IF gen.raised # ""
                THEN Outcome(extract_result, None, gen.raised, file, colors_list,
                             color_to_id, color_data, gen)
                ELSE Outcome(extract_result,
                             [success |-> TRUE,
                              color_count |-> color_count,
                              block_count |-> Len(gen.result),
                              transparent_count |->
                                  extract_result.transparent_count,
                              width |-> extract_result.width,
                              height |-> extract_result.height,
                              output_file |-> "output_path",
                              start_id |-> start_id,
                              end_id |-> start_id - color_count + 1],
                             "",
                             write_to_file(file, color_data, gen.result),
                             colors_list, color_to_id, color_data, gen)

process_image(img, start_id, file) ==
    LET extract_result == extract_colors_from_image(img)
    IN  IF ~extract_result.success
        THEN Outcome(extract_result, extract_result, "", file,
                     <<>>, <<>>, <<>>, NotRun)
        ELSE
        LET colors_list == extract_result.colors
            color_count == extract_result.color_count
        IN  IF StartIdTooLarge(start_id)
            THEN Outcome(extract_result,
                         [success |-> FALSE,
                          error |-> <<"start_id_exceeds_max", start_id>>],
                         "", file, colors_list, <<>>, <<>>, NotRun)
            ELSE IF StartIdTooSmall(start_id, color_count)
            THEN Outcome(extract_result,
                         [success |-> FALSE,
                          error |-> <<"start_id_not_above_color_count",
                                      start_id, color_count>>,
                          color_count |-> color_count],
                         "", file, colors_list, <<>>, <<>>, NotRun)
            ELSE
            LET color_to_id == generate_color_id_mapping(colors_list, start_id)
                color_data == generate_color_data(colors_list, color_to_id)
                gen == generate_block_data(extract_result.image,
                                           extract_result.width,
                                           extract_result.height, color_to_id)
            IN  IF gen.raised # ""
                THEN Outcome(extract_result, None, gen.raised, file, colors_list,
                             color_to_id, color_data, gen)
                ELSE Outcome(extract_result,
                             [success |-> TRUE,
                              color_count |-> color_count,
                              block_count |-> Len(gen.result),
                              transparent_count |->
                                  extract_result.transparent_count,
                              width |-> extract_result.width,
                              height |-> extract_result.height,
                              output_file |-> "output_path",
                              start_id |-> start_id,
                              end_id |-> start_id - color_count + 1],
                             "",
                             write_to_file(file, color_data, gen.result),
                             colors_list, color_to_id, color_data, gen)

\* ------------------------------------------- ColorExtractorGUI (color.py)
\* QSpinBox.setRange(1, 999)
SpinBoxMin == 1
SpinBoxMax == 999

\* The images the file dialog offers, and the values typed in the spin box.
ExampleImage ==
    [readable |-> TRUE, width |-> 2, height |-> 2,
     pixels |-> << <<0, 0, 0, 255>>, <<0, 0, 0, 255>>,
                   <<255, 255, 255, 255>>, <<10, 20, 30, 255>> >>]

OnePixelImage(pixel) ==
    [readable |-> TRUE, width |-> 1, height |-> 1, pixels |-> <<pixel>>]

GuiImages ==
    { ExampleImage, UnreadableImage, BigImage(513),
      OnePixelImage(<<0, 0, 0, 255>>), OnePixelImage(<<10, 20, 30, 128>>) }

GuiStartIds == {1, 2, 3, 513, 999}

\* _update_id_range: the read-only field showing the predicted ID range.
update_id_range(edit, self_color_count, spin_value) ==
    IF self_color_count = 0
    THEN [text |-> <<"">>, style |-> edit.style]
    ELSE LET end_id == spin_value - self_color_count + 1
         IN  IF end_id < 1
             THEN [text |-> <<"invalid_needs", self_color_count>>,
                   style |-> "red"]
             ELSE [text |-> <<"range", end_id, spin_value>>, style |-> ""]

\* The branches of extract_colors on the dict process_image returned
\* (lines 225-270): the message box shown and the status bar text.
report(res, spin_value) ==
    IF ~res.success
    THEN IF "color_count" \in DOMAIN res /\ res.color_count >= spin_value
         THEN [box |-> [title |-> "start_id_insufficient",
                        color_count |-> res.color_count,
                        at_least |-> res.color_count + 1],
               status |-> "failed_start_id_insufficient"]
         ELSE IF "color_count" \in DOMAIN res /\ res.color_count > MaxColors
         THEN [box |-> [title |-> "too_many_colors",
                        color_count |-> res.color_count],
               status |-> "failed_too_many_colors"]
         ELSE [box |-> [title |-> "error", error |-> res.error],
               status |-> "extract_failed"]
    ELSE [box |-> [title |-> "success", color_count |-> res.color_count,
                   block_count |-> res.block_count,
                   end_id |-> res.end_id, start_id |-> res.start_id],
          status |-> "extract_succeeded"]

\* ===================================================== utils/gmd_parser.py
\* A str is a sequence of code points, a bytes object a sequence of
\* integers 0..255.  The text of a k4 field is a sequence of characters,
\* each a string; "U+00E9" is the one character outside ASCII used here.
\* A call that can raise returns [raised |-> "", value |-> v] or
\* [raised |-> the exception class].

\* ------------------------------------------------------- k4 field: inputs
\* The longest string given to encode_k4, the longest payload behind a text
\* given to decode_k4.
MaxTextLen == 2
MaxPayloadLen == 2

\* a | ; newline, e-acute (two bytes in UTF-8), a CJK character (three)
TextChars == {97, 124, 59, 10, 233, 20013}
LoneSurrogate == 55357

\* a, an invalid byte, and the two bytes of e-acute taken apart
PayloadBytes == {97, 255, 195, 169}

SeqsUpTo(S, n) == UNION { [1..k -> S] : k \in 0..n }

Clocks == {0, 1700000000}

\* A for loop over seq[lo..hi] with the loop's variables in st.  The loop is
\* walked half by half.
RECURSIVE Fold(_, _, _, _, _)
Fold(step(_, _), st, seq, lo, hi) ==
    IF lo > hi THEN st
    ELSE IF lo = hi THEN step(st, seq[lo])
    ELSE LET mid == (lo + hi) \div 2
             first == Fold(step, st, seq, lo, mid)
         IN  IF Ran(first) THEN Fold(step, first, seq, mid + 1, hi)
             ELSE first

ForEach(step(_, _), st, seq) == Fold(step, st, list(seq), 1, Len(seq))

\* b"".join(pieces)
join(pieces) == ForEach(LAMBDA out, piece : out \o piece, <<>>, pieces)

\* name = value, then the statements that follow it.
With(value, then(_)) == then(value)

\* --------------------------------------------------------- str and bytes
\* str.encode('utf-8')
utf8_encode_char(cp) ==
    IF cp < 128 THEN <<cp>>
    ELSE IF cp < 2048 THEN <<192 + (cp \div 64), 128 + (cp % 64)>>
    ELSE IF cp < 65536
    THEN <<224 + (cp \div 4096), 128 + ((cp \div 64) % 64), 128 + (cp % 64)>>
    ELSE <<240 + (cp \div 262144), 128 + ((cp \div 4096) % 64),
           128 + ((cp \div 64) % 64), 128 + (cp % 64)>>

IsSurrogate(cp) == cp \in 55296..57343

utf8_encode(text) ==
    IF \E i \in 1..Len(text) : IsSurrogate(text[i])
    THEN [raised |-> "UnicodeEncodeError"]
    ELSE [raised |-> "",
          value |-> join([i \in 1..Len(text) |-> utf8_encode_char(text[i])])]

\* bytes.decode('utf-8', errors): the number of continuation bytes a lead
\* byte asks for (-1: not a lead byte), and the range of the first of them
\* (which excludes over-long forms, surrogates and values above U+10FFFF).
Continuations(b) ==
    IF b < 128 THEN 0
    ELSE IF b \in 194..223 THEN 1
    ELSE IF b \in 224..239 THEN 2
    ELSE IF b \in 240..244 THEN 3
    ELSE -1

SecondByteRange(b) ==
    IF b = 224 THEN 160..191
    ELSE IF b = 237 THEN 128..159
    ELSE IF b = 240 THEN 144..191
    ELSE IF b = 244 THEN 128..143
    ELSE 128..191

LeadBits(b) ==
    IF b < 224 THEN b - 192 ELSE IF b < 240 THEN b - 224 ELSE b - 240

ReplacementCharacter == 65533

\* The decoder's variables: the text so far, the continuation bytes still
\* expected (need) with the range of the next one, the code point being
\* assembled, and whether an invalid sequence was met.
DecoderStart ==
    [text |-> <<>>, need |-> 0, low |-> 128, high |-> 191, cp |-> 0,
     invalid |-> FALSE]

\* An invalid sequence ends here; errors says what becomes of it ("token":
\* expat marks the place as an invalid token).
utf8_invalid(st, errors) ==
    [st EXCEPT !.need = 0, !.invalid = TRUE,
               !.text = IF errors = "replace"
                        THEN Append(@, ReplacementCharacter)
                        ELSE IF errors = "token" THEN Append(@, 0 - 1)
                        ELSE @]

\* The byte b where a character starts.
utf8_lead(st, b, errors) ==
    IF Continuations(b) = 0 THEN [st EXCEPT !.text = Append(@, b)]
    ELSE IF Continuations(b) < 0 THEN utf8_invalid(st, errors)
    ELSE [st EXCEPT !.need = Continuations(b), !.cp = LeadBits(b),
                    !.low = CHOOSE v \in SecondByteRange(b) :
                                \A w \in SecondByteRange(b) : v <= w,
                    !.high = CHOOSE v \in SecondByteRange(b) :
                                \A w \in SecondByteRange(b) : v >= w]

utf8_step(st, b, errors) ==
    IF st.need = 0 THEN utf8_lead(st, b, errors)
    ELSE IF b \in st.low..st.high
    THEN IF st.need = 1
         THEN [st EXCEPT !.need = 0,
                         !.text = Append(@, (st.cp * 64) + (b - 128))]
         ELSE [st EXCEPT !.need = @ - 1, !.cp = (@ * 64) + (b - 128),
                         !.low = 128, !.high = 191]
    ELSE utf8_lead(utf8_invalid(st, errors), b, errors)

utf8_decode(data, errors) ==
    LET last == ForEach(LAMBDA st, b : utf8_step(st, b, errors),
                        DecoderStart, data)
        st == IF last.need > 0 THEN utf8_invalid(last, errors) ELSE last
    IN  IF errors = "strict" /\ st.invalid
        THEN [raised |-> "UnicodeDecodeError"]
        ELSE [raised |-> "", value |-> st.text]

\* --------------------------------------------------------------- base64
b64_alphabet ==
    << "A", "B", "C", "D", "E", "F", "G", "H", "I", "J", "K", "L", "M",
       "N", "O", "P", "Q", "R", "S", "T", "U", "V", "W", "X", "Y", "Z",
       "a", "b", "c", "d", "e", "f", "g", "h", "i", "j", "k", "l", "m",
       "n", "o", "p", "q", "r", "s", "t", "u", "v", "w", "x", "y", "z",
       "0", "1", "2", "3", "4", "5", "6", "7", "8", "9", "+", "/" >>

NonAsciiChars == {"U+00E9"}

\* base64.b64encode: three bytes make four characters, "=" pads the last
\* group.  byte(k) is the k-th byte of the data, 0 past its end.
b64encode(data) ==
    LET n == Len(data)
        byte(k) == IF k <= n THEN data[k] ELSE 0
        char(j) ==
            LET g == 3 * ((j - 1) \div 4)
                b1 == byte(g + 1)
                b2 == byte(g + 2)
                b3 == byte(g + 3)
            IN  IF j % 4 = 1 THEN b64_alphabet[(b1 \div 4) + 1]
                ELSE IF j % 4 = 2
                THEN b64_alphabet[((b1 % 4) * 16) + (b2 \div 16) + 1]
                ELSE IF j % 4 = 3
                THEN IF g + 2 <= n
                     THEN b64_alphabet[((b2 % 16) * 4) + (b3 \div 64) + 1]
                     ELSE "="
                ELSE IF g + 3 <= n THEN b64_alphabet[(b3 % 64) + 1]
                     ELSE "="
    IN  list([j \in 1..(4 * ((n + 2) \div 3)) |-> char(j)])

\* base64.urlsafe_b64encode: "+" and "/" become "-" and "_".
urlsafe_b64encode(data) ==
    LET s == b64encode(data)
    IN  list([i \in 1..Len(s) |->
                IF s[i] = "+" THEN "-" ELSE IF s[i] = "/" THEN "_" ELSE s[i]])

\* binascii's table: the value of a character, 64 for any other character.
table_a2b_base64(c) ==
    IF \E v \in 1..64 : b64_alphabet[v] = c
    THEN (CHOOSE v \in 1..64 : b64_alphabet[v] = c) - 1
    ELSE 64

\* One character of binascii.a2b_base64 (not strict): a character outside
\* the alphabet is skipped, enough "=" after two or three characters of a
\* group end the input.
a2b_step(st, c) ==
    IF st.done THEN st
    ELSE IF c = "="
    THEN IF st.quad_pos >= 2 /\ st.quad_pos + st.pads + 1 >= 4
         THEN [st EXCEPT !.done = TRUE]
         ELSE IF st.quad_pos >= 2 THEN [st EXCEPT !.pads = @ + 1] ELSE st
    ELSE LET this_ch == table_a2b_base64(c)
         IN  IF this_ch >= 64 THEN st
             ELSE IF st.quad_pos = 0
             THEN [st EXCEPT !.quad_pos = 1, !.leftchar = this_ch,
                             !.pads = 0]
             ELSE IF st.quad_pos = 1
             THEN [st EXCEPT !.quad_pos = 2, !.leftchar = this_ch % 16,
                             !.pads = 0,
                             !.out = Append(@, (st.leftchar * 4)
                                               + (this_ch \div 16))]
             ELSE IF st.quad_pos = 2
             THEN [st EXCEPT !.quad_pos = 3, !.leftchar = this_ch % 4,
                             !.pads = 0,
                             !.out = Append(@, (st.leftchar * 16)
                                               + (this_ch \div 4))]
             ELSE [st EXCEPT !.quad_pos = 0, !.leftchar = 0, !.pads = 0,
                             !.out = Append(@, (st.leftchar * 64) + this_ch)]

\* An unfinished group at the end of the input is an error.
a2b_base64(s) ==
    LET st == ForEach(a2b_step,
                      [quad_pos |-> 0, leftchar |-> 0, pads |-> 0,
                       out |-> <<>>, done |-> FALSE], s)
    IN  IF ~st.done /\ st.quad_pos # 0 THEN [raised |-> "binascii.Error"]
        ELSE [raised |-> "", value |-> st.out]

\* base64.urlsafe_b64decode of a str: the str must be ASCII, "-" and "_"
\* are read as "+" and "/".
urlsafe_b64decode(s) ==
    IF \E i \in 1..Len(s) : s[i] \in NonAsciiChars
    THEN [raised |-> "ValueError"]
    ELSE a2b_base64([i \in 1..Len(s) |->
                        IF s[i] = "-" THEN "+"
                        ELSE IF s[i] = "_" THEN "/" ELSE s[i]])

\* ------------------------------------------------------------------ gzip
le32(n) ==
    <<n % 256, (n \div 256) % 256, (n \div 65536) % 256,
      (n \div 16777216) % 256>>

\* The checksum of the gzip trailer.  The sum of the bytes, weighted by
\* their positions, stands for zlib.crc32.
crc32(data) ==
    ForEach(LAMBDA sum, k : (sum + (k * data[k])) % 16777216, 0,
            [k \in 1..Len(data) |-> k])

\* A raw deflate stream.  The stored (uncompressed) block, which every
\* inflater reads, stands for the blocks zlib chooses at level 6.
deflate(data) ==
    <<1, Len(data) % 256, Len(data) \div 256,
      255 - (Len(data) % 256), 255 - (Len(data) \div 256)>> \o data

\* zlib.decompressobj(wbits=-15).decompress(data): the bytes produced,
\* whether the end of the stream was reached, and the bytes after it.
\* Block types other than "stored" do not occur in the streams above.
inflate(data) ==
    IF Len(data) < 5
    THEN IF data # <<>> /\ data[1] % 8 > 1
         THEN [raised |-> "zlib.error"]
         ELSE [raised |-> "", value |-> <<>>, eof |-> FALSE,
               unused_data |-> <<>>]
    ELSE LET size == data[2] + (256 * data[3])
         IN  IF data[1] % 8 > 1 \/ data[1] % 2 = 0
                \/ data[4] + (256 * data[5]) # 65535 - size
             THEN [raised |-> "zlib.error"]
             ELSE IF Len(data) < 5 + size
             THEN [raised |-> "", value |-> SubSeq(data, 6, Len(data)),
                   eof |-> FALSE, unused_data |-> <<>>]
             ELSE [raised |-> "", value |-> SubSeq(data, 6, 5 + size),
                   eof |-> TRUE,
                   unused_data |-> SubSeq(data, 6 + size, Len(data))]

\* gzip.compress(data, compresslevel=6, mtime=mtime): a ten-byte header
\* (magic, method 8, no flags, mtime, xfl 0, os), the deflate stream, the
\* checksum and the length (far below 2^32 here).
gzip_compress(data, mtime) ==
    <<31, 139, 8, 0>> \o le32(mtime)
    \o <<0, IF mtime = 0 THEN 3 ELSE 255>>
    \o deflate(data) \o le32(crc32(data)) \o le32(Len(data))

RECURSIVE lstrip_zeros(_)
lstrip_zeros(data) ==
    IF data # <<>> /\ data[1] = 0 THEN lstrip_zeros(Tail(data)) ELSE data

\* gzip.decompress(data): member after member until the data is used up.
RECURSIVE gzip_decompress_members(_, _)
gzip_decompress_members(data, decompressed_members) ==
    IF data = <<>>
    THEN [raised |-> "", value |-> decompressed_members]
    ELSE IF Len(data) < 2 \/ data[1] # 31 \/ data[2] # 139
    THEN [raised |-> "gzip.BadGzipFile"]
    ELSE IF Len(data) < 10
    THEN [raised |-> "EOFError"]
    ELSE IF data[3] # 8
    THEN [raised |-> "gzip.BadGzipFile"]
    ELSE LET do == inflate(SubSeq(data, 11, Len(data)))
         IN  IF do.raised # "" THEN [raised |-> do.raised]
             ELSE IF ~do.eof \/ Len(do.unused_data) < 8
             THEN [raised |-> "EOFError"]
             ELSE IF SubSeq(do.unused_data, 1, 4) # le32(crc32(do.value))
                     \/ SubSeq(do.unused_data, 5, 8) # le32(Len(do.value))
             THEN [raised |-> "gzip.BadGzipFile"]
             ELSE gzip_decompress_members(
                      lstrip_zeros(SubSeq(do.unused_data, 9,
                                          Len(do.unused_data))),
                      decompressed_members \o do.value)

gzip_decompress(data) == gzip_decompress_members(data, <<>>)

\* ------------------------------------------------------------- k4 codec
\* The classes the program raises here; all are subclasses of Exception.
ExceptionClasses ==
    {"ValueError", "TypeError", "EOFError", "UnicodeEncodeError",
     "UnicodeDecodeError", "binascii.Error", "gzip.BadGzipFile",
     "zlib.error"}

\* "except Exception as e" of decode_k4 and encode_k4.
except_Exception_base64_only(e) == e = "binascii.Error"
except_Exception(e) == e \in ExceptionClasses

\* bytes.decode('utf-8', errors='ignore') of decode_k4.
decode_utf8_as_ascii(decompressed_data) ==
    SelectSeq(decompressed_data, LAMBDA b : b < 128)
decode_utf8(decompressed_data) ==
    utf8_decode(decompressed_data, "ignore").value

\* decode_k4(k4_string)
decode_k4(k4_string) ==
    LET missing_padding == Len(k4_string) % 4
        padded ==
            IF missing_padding # 0
            THEN k4_string \o [i \in 1..(4 - missing_padding) |-> "="]
            ELSE list(k4_string)
        compressed_data == urlsafe_b64decode(padded)
        decompressed_data ==
            IF compressed_data.raised # "" THEN compressed_data
            ELSE gzip_decompress(compressed_data.value)
    IN  IF decompressed_data.raised = ""
        THEN [raised |-> "", value |-> decode_utf8(decompressed_data.value)]
        ELSE IF except_Exception(decompressed_data.raised)
        THEN [raised |-> "ValueError", cause |-> decompressed_data.raised]
        ELSE [raised |-> decompressed_data.raised]

\* mtime=0 of encode_k4: the header carries no timestamp whatever the
\* clock says.
mtime_zero(clock) == 0

\* encode_k4(level_string), called when the clock shows clock.
encode_k4(level_string, clock) ==
    LET data == utf8_encode(level_string)
    IN  IF data.raised # ""
        THEN IF except_Exception(data.raised)
             THEN [raised |-> "ValueError", cause |-> data.raised]
             ELSE [raised |-> data.raised]
        ELSE [raised |-> "",
              value |-> urlsafe_b64encode(
                            gzip_compress(data.value, mtime_zero(clock)))]

\* The texts given to decode_k4: what encoding a payload gives, the same
\* without its padding, cut short, followed by a character outside the
\* alphabet, with a damaged checksum, and a few texts that are no k4 field.
K4Of(payload) == urlsafe_b64encode(gzip_compress(payload, 0))

WithoutPadding(s) == SelectSeq(s, LAMBDA c : c # "=")

CutShort(s) == SubSeq(s, 1, Len(s) - 8)

DamagedChecksum(payload) ==
    LET g == gzip_compress(payload, 0)
        at == Len(g) - 7
    IN  urlsafe_b64encode([g EXCEPT ![at] = (g[at] + 1) % 256])

Payloads == SeqsUpTo(PayloadBytes, MaxPayloadLen)

K4Strings ==
    { K4Of(p) : p \in Payloads }
    \cup { WithoutPadding(K4Of(p)) : p \in Payloads }
    \cup { CutShort(K4Of(p)) : p \in Payloads }
    \cup { Append(K4Of(p), "!") : p \in Payloads }
    \cup { DamagedChecksum(p) : p \in Payloads }
    \cup { <<>>, <<"a">>, <<"a", "b", "c">>, <<"U+00E9">>,
           <<"!", "!", "!", "!">>, <<"H", "4", "s", "I">>,
           urlsafe_b64encode(gzip_compress(<<97>>, 1700000000)),
           urlsafe_b64encode(gzip_compress(<<97>>, 0)
                             \o gzip_compress(<<98>>, 0)),
           urlsafe_b64encode(<<31, 139, 9, 0, 0, 0, 0, 0, 0, 3>>),
           urlsafe_b64encode(<<31, 139, 8, 0, 0, 0, 0, 0, 0, 3, 7, 0>>) }

LevelStrings ==
    SeqsUpTo(TextChars, MaxTextLen)
    \cup { <<LoneSurrogate>>, <<97, LoneSurrogate>> }

\* ------------------------------------------------------- level documents
\* The printable ASCII characters, in code order from 32 (backslash and
\* backtick are spelled out).
ascii ==
    << " ", "!", "\"", "#", "$", "%", "&", "'", "(", ")", "*", "+", ",",
       "-", ".", "/", "0", "1", "2", "3", "4", "5", "6", "7", "8", "9",
       ":", ";", "<", "=", ">", "?", "@", "A", "B", "C", "D", "E", "F",
       "G", "H", "I", "J", "K", "L", "M", "N", "O", "P", "Q", "R", "S",
       "T", "U", "V", "W", "X", "Y", "Z", "[", "BACKSLASH", "]", "^", "_",
       "BACKTICK",
       "a", "b", "c", "d", "e", "f", "g", "h", "i", "j", "k", "l", "m",
       "n", "o", "p", "q", "r", "s", "t", "u", "v", "w", "x", "y", "z",
       "{", "|", "}", "~" >>
ord(c) == 31 + CHOOSE i \in 1..95 : ascii[i] = c

\* A str literal: the code points of the characters written out.
Lit(chars) == list([i \in 1..Len(chars) |-> ord(chars[i])])

\* The values plistlib and json hand to the program.  A dict keeps its items
\* in insertion order, as <<key, value>> pairs with distinct keys; a float
\* is kept exactly, in halves.
PyBool(b) == [type |-> "bool", v |-> b]
PyInt(n) == [type |-> "int", v |-> n]
PyFloat(halves) == [type |-> "float", halves |-> halves]
PyStr(text) == [type |-> "str", v |-> text]
PyDict(items) == [type |-> "dict", items |-> items]
PyList(items) == [type |-> "list", items |-> items]

isinstance(value, type) == value # None /\ value.type = type

keys(d) == [i \in 1..Len(d.items) |-> d.items[i][1]]

has_key(d, k) == \E i \in 1..Len(d.items) : d.items[i][1] = k

get_item(d, k) == d.items[CHOOSE i \in 1..Len(d.items) : d.items[i][1] = k][2]

\* d[k] = value: an existing key keeps its place, a new key goes last.
set_item(d, k, value) ==
    IF has_key(d, k)
    THEN PyDict([i \in 1..Len(d.items) |->
                 IF d.items[i][1] = k THEN <<k, value>> ELSE d.items[i]])
    ELSE PyDict(Append(d.items, <<k, value>>))

\* str(n) of an int.
RECURSIVE digits(_)
digits(n) ==
    IF n < 10 THEN <<48 + n>> ELSE Append(digits(n \div 10), 48 + (n % 10))

int_to_str(n) == IF n < 0 THEN <<45>> \o digits(0 - n) ELSE digits(n)

\* str(value) of a float that is not a whole number: the shortest repr.
float_to_str(value) ==
    LET h == value.halves
        a == IF h < 0 THEN 0 - h ELSE h
    IN  (IF h < 0 THEN <<45>> ELSE <<>>) \o digits(a \div 2)
        \o Lit(<<".", "5">>)

\* str.replace(old, new) for a one-character old.
replace(text, old, new) ==
    join([i \in 1..Len(text) |-> IF text[i] = old THEN new ELSE <<text[i]>>])

\* --------------------------------------------------------- _save_gmd
\* value.replace('&', '&amp;').replace('<', '&lt;').replace('>', '&gt;')
escaped(value) ==
    replace(replace(replace(value, ord("&"), Lit(<<"&", "a", "m", "p",
        ";">>)),
                    ord("<"), Lit(<<"&", "l", "t", ";">>)),
            ord(">"), Lit(<<"&", "g", "t", ";">>))

\* f'<k>{k}</k>': the key goes in as it is.
key_element(k) == Lit(<<"<", "k", ">">>) \o k \o Lit(<<"<", "/", "k", ">">>)

\* value_to_gd_xml(value)
RECURSIVE value_to_gd_xml(_)
value_to_gd_xml(value) ==
    IF isinstance(value, "bool")
    THEN IF value.v THEN Lit(<<"<", "t", " ", "/", ">">>) ELSE Lit(<<"<",
        "f", " ", "/", ">">>)
    ELSE IF isinstance(value, "int")
    THEN Lit(<<"<", "i", ">">>) \o int_to_str(value.v) \o Lit(<<"<", "/",
        "i", ">">>)
    ELSE IF isinstance(value, "float")
    THEN IF value.halves % 2 = 0
         THEN Lit(<<"<", "r",
             ">">>) \o int_to_str(value.halves \div 2) \o Lit(<<"<", "/",
             "r", ">">>)
         ELSE Lit(<<"<", "r", ">">>) \o float_to_str(value) \o Lit(<<"<",
             "/", "r", ">">>)
    ELSE IF isinstance(value, "str")
    THEN Lit(<<"<", "s", ">">>) \o escaped(value.v) \o Lit(<<"<", "/", "s",
        ">">>)
    ELSE IF isinstance(value, "dict")
    THEN Lit(<<"<", "d", ">">>)
         \o join([i \in 1..Len(value.items) |->
                    key_element(value.items[i][1])
                    \o value_to_gd_xml(value.items[i][2])])
         \o Lit(<<"<", "/", "d", ">">>)
    ELSE IF isinstance(value, "list")
    THEN Lit(<<"<", "a", ">">>)
         \o join([i \in 1..Len(value.items) |->
                    value_to_gd_xml(value.items[i])])
         \o Lit(<<"<", "/", "a", ">">>)
    ELSE Lit(<<"<", "s", ">", "N", "o", "n", "e", "<", "/", "s", ">">>)

gd_xml_head ==
    Lit(<<"<", "?", "x", "m", "l", " ", "v", "e", "r", "s", "i", "o", "n",
        "=", "\"", "1", ".", "0", "\"", "?", ">", "<", "p", "l", "i", "s",
        "t", " ", "v", "e", "r", "s", "i", "o", "n", "=", "\"", "1", ".",
        "0", "\"", " ", "g", "j", "v", "e", "r", "=", "\"", "2", ".", "0",
        "\"", ">", "<", "d", "i", "c", "t", ">">>)

gd_xml_tail == Lit(<<"<", "/", "d", "i", "c", "t", ">", "<", "/", "p", "l",
    "i", "s", "t", ">">>)

\* ''.join(xml_parts) of _save_gmd: the text written for the root dict data.
gd_xml(data) ==
    gd_xml_head
    \o join([i \in 1..Len(data.items) |->
               key_element(data.items[i][1])
               \o value_to_gd_xml(data.items[i][2])])
    \o gd_xml_tail

\* ------------------------------------------------------------ pyexpat
\* plistlib.loads hands the bytes to expat.  What expat reports is modelled
\* for documents without an internal DTD subset, CDATA sections and
\* attribute-value references: the files of the model have none.
InvalidToken == 0 - 1

Whitespace == {9, 10, 13, 32}

Quotes == {34, 39}

IsChar(c) ==
    \/ c \in {9, 10, 13}
    \/ /\ c >= 32
       /\ ~IsSurrogate(c)
       /\ c \notin {65534, 65535}

IsNameStart(c) ==
    \/ c \in 65..90
    \/ c \in 97..122
    \/ c \in {58, 95}
    \/ c >= 192 /\ c \notin {215, 247}

IsNameChar(c) == IsNameStart(c) \/ c \in 48..57 \/ c \in {45, 46, 183}

IsName(s) ==
    /\ s # <<>>
    /\ IsNameStart(s[1])
    /\ \A i \in 2..Len(s) : IsNameChar(s[i])

startswith(s, prefix) ==
    /\ Len(s) >= Len(prefix)
    /\ \A i \in 1..Len(prefix) : s[i] = prefix[i]

endswith(s, suffix) ==
    /\ Len(s) >= Len(suffix)
    /\ \A i \in 1..Len(suffix) : s[(Len(s) - Len(suffix)) + i] = suffix[i]

contains(s, part) ==
    \E i \in 1..((Len(s) - Len(part)) + 1) :
        \A j \in 1..Len(part) : s[(i + j) - 1] = part[j]

\* The characters before the first white space, and those from it on.
first_word(s) ==
    IF \E i \in 1..Len(s) : s[i] \in Whitespace
    THEN SubSeq(s, 1, (CHOOSE i \in 1..Len(s) :
                          /\ s[i] \in Whitespace
                          /\ \A j \in 1..(i - 1) : s[j] \notin Whitespace)
                      - 1)
    ELSE s

after_first_word(s) == SubSeq(s, Len(first_word(s)) + 1, Len(s))

rstrip(s) ==
    IF \A i \in 1..Len(s) : s[i] \in Whitespace THEN <<>>
    ELSE SubSeq(s, 1, CHOOSE i \in 1..Len(s) :
                        /\ s[i] \notin Whitespace
                        /\ \A j \in (i + 1)..Len(s) : s[j] \in Whitespace)

lstrip(s) ==
    IF \A i \in 1..Len(s) : s[i] \in Whitespace THEN <<>>
    ELSE SubSeq(s, CHOOSE i \in 1..Len(s) :
                     /\ s[i] \notin Whitespace
                     /\ \A j \in 1..(i - 1) : s[j] \in Whitespace,
                Len(s))

strip(s) == lstrip(rstrip(s))

\* The attributes of a start tag: each is white space, a name, "=" and a
\* quoted value without "<".
attrs_step(at, c) ==
    IF at = "bad" THEN at
    ELSE IF at = "gap"
    THEN IF c \in Whitespace THEN "space" ELSE "bad"
    ELSE IF at = "space"
    THEN IF c \in Whitespace THEN at
         ELSE IF IsNameStart(c) THEN "name" ELSE "bad"
    ELSE IF at = "name"
    THEN IF IsNameChar(c) THEN at
         ELSE IF c \in Whitespace THEN "named"
         ELSE IF c = 61 THEN "eq" ELSE "bad"
    ELSE IF at = "named"
    THEN IF c \in Whitespace THEN at ELSE IF c = 61 THEN "eq" ELSE "bad"
    ELSE IF at = "eq"
    THEN IF c \in Whitespace THEN at
         ELSE IF c = 34 THEN "double"
         ELSE IF c = 39 THEN "single" ELSE "bad"
    ELSE IF at = "double"
    THEN IF c = 34 THEN "gap" ELSE IF c \in {60, 38} THEN "bad" ELSE at
    ELSE IF c = 39 THEN "gap" ELSE IF c \in {60, 38} THEN "bad" ELSE at

attrs_ok(s) == ForEach(attrs_step, "gap", s) \in {"gap", "space"}

\* The predefined entities and the character references.
RefAmp == Lit(<<"a", "m", "p">>)
RefLt == Lit(<<"l", "t">>)
RefGt == Lit(<<"g", "t">>)
RefQuot == Lit(<<"q", "u", "o", "t">>)
RefApos == Lit(<<"a", "p", "o", "s">>)

decimal(s) ==
    ForEach(LAMBDA n, c : IF n < 0 \/ c \notin 48..57 \/ n > 100000
                          THEN 0 - 1 ELSE (n * 10) + (c - 48), 0, s)

HexDigit(c) ==
    IF c \in 48..57 THEN c - 48
    ELSE IF c \in 65..70 THEN c - 55
    ELSE IF c \in 97..102 THEN c - 87 ELSE 0 - 1

hexadecimal(s) ==
    ForEach(LAMBDA n, c : IF n < 0 \/ HexDigit(c) < 0 \/ n > 100000
                          THEN 0 - 1 ELSE (n * 16) + HexDigit(c), 0, s)

\* The character a reference stands for, InvalidToken if it stands for none.
character(c) == IF IsChar(c) THEN c ELSE InvalidToken

reference(name) ==
    IF name = RefAmp THEN 38
    ELSE IF name = RefLt THEN 60
    ELSE IF name = RefGt THEN 62
    ELSE IF name = RefQuot THEN 34
    ELSE IF name = RefApos THEN 39
    ELSE IF Len(name) >= 3 /\ name[1] = 35 /\ name[2] = 120
    THEN character(hexadecimal(SubSeq(name, 3, Len(name))))
    ELSE IF Len(name) >= 2 /\ name[1] = 35
    THEN character(decimal(Tail(name)))
    ELSE InvalidToken

\* The parser before the first character: mode is where it is (in
\* character data, in markup after "<", in a reference after "&"), open the
\* names of the elements not yet closed, events what the handlers have been
\* called with.
ParserCreate ==
    [mode |-> "text", buf |-> <<>>, quote |-> 0, cr |-> FALSE,
     text |-> <<>>, open |-> <<>>, seen_root |-> FALSE, doctype |-> FALSE,
     at |-> 0, start |-> 0, events |-> <<>>, error |-> FALSE]

Event(ev, arg) == [ev |-> ev, arg |-> arg]

not_well_formed(st) == [st EXCEPT !.error = TRUE]

\* The character data collected so far goes to CharacterDataHandler; outside
\* the document element only white space may stand.
flush_text(st) ==
    IF st.text = <<>> THEN st
    ELSE IF st.open = <<>>
    THEN IF \A i \in 1..Len(st.text) : st.text[i] \in Whitespace
         THEN [st EXCEPT !.text = <<>>]
         ELSE not_well_formed(st)
    ELSE [st EXCEPT !.text = <<>>,
                    !.events = Append(@, Event("data", st.text))]

StartElement(st, name, empty) ==
    IF st.open = <<>> /\ st.seen_root THEN not_well_formed(st)
    ELSE [st EXCEPT !.seen_root = TRUE,
                    !.open = IF empty THEN @ ELSE Append(@, name),
                    !.events = IF empty
                               THEN @ \o <<Event("begin", name),
                                           Event("end", name)>>
                               ELSE Append(@, Event("begin", name))]

EndElement(st, name) ==
    IF st.open = <<>> \/ ~IsName(name) THEN not_well_formed(st)
    ELSE IF st.open[Len(st.open)] # name THEN not_well_formed(st)
    ELSE [st EXCEPT !.open = SubSeq(@, 1, Len(@) - 1),
                    !.events = Append(@, Event("end", name))]

XmlTarget == Lit(<<"x", "m", "l">>)
VersionAttr == Lit(<<"v", "e", "r", "s", "i", "o", "n">>)
EncodingAttr == Lit(<<"e", "n", "c", "o", "d", "i", "n", "g">>)
StandaloneAttr == Lit(<<"s", "t", "a", "n", "d", "a", "l", "o", "n", "e">>)
System == Lit(<<"S", "Y", "S", "T", "E", "M">>)
Public == Lit(<<"P", "U", "B", "L", "I", "C">>)
Doctype == Lit(<<"!", "D", "O", "C", "T", "Y", "P", "E">>)
CommentOpen == Lit(<<"!", "-", "-">>)
CommentClose == Lit(<<"-", "-">>)

\* The XML declaration begins with the version; its values are made of
\* letters, digits, ".", "_" and "-".
XmlDecl_names(st, c, at) ==
    [at |-> at,
     names |-> IF at = "name" /\ st.at = "space"
               THEN Append(st.names, <<c>>)
               ELSE IF at = "name"
               THEN [st.names EXCEPT ![Len(st.names)] = Append(@, c)]
               ELSE st.names]

XmlDecl_step(st, c) ==
    XmlDecl_names(st, c, IF /\ st.at \in {"double", "single"}
                            /\ c # (IF st.at = "double" THEN 34 ELSE 39)
                            /\ ~(IsNameChar(c) /\ c < 128 /\ c # 58)
                         THEN "bad"
                         ELSE attrs_step(st.at, c))

XmlDecl_end(st) ==
    /\ st.at \in {"gap", "space"}
    /\ st.names \in {<<VersionAttr>>,
                      <<VersionAttr, EncodingAttr>>,
                      <<VersionAttr, StandaloneAttr>>,
                      <<VersionAttr, EncodingAttr, StandaloneAttr>>}

XmlDecl_ok(rest) ==
    XmlDecl_end(ForEach(XmlDecl_step, [at |-> "gap", names |-> <<>>], rest))

\* <?target ...?>: the XML declaration stands at the very start.
Instruction(st, target, rest) ==
    IF ~IsName(target) THEN not_well_formed(st)
    ELSE IF target = XmlTarget
    THEN IF st.start = 0 /\ XmlDecl_ok(rest) THEN st
         ELSE not_well_formed(st)
    ELSE IF Len(target) = 3 /\ target[1] \in {88, 120}
            /\ target[2] \in {77, 109} /\ target[3] \in {76, 108}
    THEN not_well_formed(st)
    ELSE st

ProcessingInstruction(st, body) ==
    Instruction(st, first_word(body), after_first_word(body))

\* The words and quoted literals of a declaration, white space between
\* them.
words_step(st, c) ==
    IF st.at = "bad" THEN st
    ELSE IF st.at \in {"double", "single"}
    THEN IF c = (IF st.at = "double" THEN 34 ELSE 39)
         THEN [st EXCEPT !.at = "gap"]
         ELSE [st EXCEPT !.words[Len(st.words)] = Append(@, c)]
    ELSE IF c \in Whitespace THEN [st EXCEPT !.at = "space"]
    ELSE IF c \in Quotes
    THEN IF st.at = "space"
         THEN [st EXCEPT !.at = IF c = 34 THEN "double" ELSE "single",
                         !.words = Append(@, <<c>>)]
         ELSE [st EXCEPT !.at = "bad"]
    ELSE IF st.at = "space"
    THEN [st EXCEPT !.at = "word", !.words = Append(@, <<c>>)]
    ELSE IF st.at = "word"
    THEN [st EXCEPT !.words[Len(st.words)] = Append(@, c)]
    ELSE [st EXCEPT !.at = "bad"]

words_end(st) ==
    IF st.at \in {"gap", "space", "word"} THEN st.words ELSE <<<<>>>>

words(s) == words_end(ForEach(words_step, [at |-> "gap", words |-> <<>>], s))

PubidPunctuation == Lit(<<"-", "'", "(", ")", "+", ",", ".", "/", ":", "=",
    "?", ";", "!", "*", "#", "@", "$", "_", "%">>)

IsPubidChar(c) ==
    \/ c \in {32, 13, 10}
    \/ c \in 48..57
    \/ c \in 65..90
    \/ c \in 97..122
    \/ \E i \in 1..Len(PubidPunctuation) : PubidPunctuation[i] = c

\* <!DOCTYPE name>, with SYSTEM and a literal or PUBLIC and two.
doctype_ok(w) ==
    /\ Len(w) \in {1, 3, 4}
    /\ IsName(w[1])
    /\ Len(w) = 3 => w[2] = System /\ w[3][1] \in Quotes
    /\ Len(w) = 4 => /\ w[2] = Public
                     /\ w[3][1] \in Quotes
                     /\ \A i \in 2..Len(w[3]) : IsPubidChar(w[3][i])
                     /\ w[4][1] \in Quotes

\* <name attributes> or <name attributes/>.
tag(st, body, empty) ==
    IF IsName(first_word(body)) /\ attrs_ok(after_first_word(body))
    THEN StartElement(st, first_word(body), empty)
    ELSE not_well_formed(st)

\* The markup between "<" and ">" is complete.
markup(st, buf) ==
    IF buf = <<>> THEN not_well_formed(st)
    ELSE IF buf[1] = 63
    THEN ProcessingInstruction(st, SubSeq(buf, 2, Len(buf) - 1))
    ELSE IF startswith(buf, CommentOpen)
    THEN IF contains(SubSeq(buf, 4, Len(buf) - 2), CommentClose)
            \/ (Len(buf) > 5 /\ buf[Len(buf) - 2] = 45)
         THEN not_well_formed(st) ELSE st
    ELSE IF buf[1] = 33
    THEN IF /\ startswith(buf, Doctype)
            /\ Len(buf) > 9
            /\ buf[9] \in Whitespace
            /\ doctype_ok(words(SubSeq(buf, 9, Len(buf))))
            /\ ~st.seen_root
            /\ ~st.doctype
         THEN [st EXCEPT !.doctype = TRUE]
         ELSE not_well_formed(st)
    ELSE IF buf[1] = 47
    THEN EndElement(st, rstrip(Tail(buf)))
    ELSE tag(st, IF buf[Len(buf)] = 47 THEN SubSeq(buf, 1, Len(buf) - 1)
                 ELSE buf, buf[Len(buf)] = 47)

\* One character of markup: a processing instruction ends with "?>", a
\* comment with "-->", anything else with a ">" outside quotes.
closed(st) == [st EXCEPT !.mode = "text", !.buf = <<>>, !.quote = 0]

markup_char(st, c) ==
    IF st.buf # <<>> /\ st.buf[1] = 63
    THEN IF c = 62 /\ Len(st.buf) >= 2 /\ st.buf[Len(st.buf)] = 63
         THEN markup(closed(st), st.buf)
         ELSE [st EXCEPT !.buf = Append(@, c)]
    ELSE IF startswith(st.buf, CommentOpen)
    THEN IF c = 62 /\ Len(st.buf) >= 5 /\ endswith(st.buf, CommentClose)
         THEN markup(closed(st), st.buf)
         ELSE [st EXCEPT !.buf = Append(@, c)]
    ELSE IF st.quote # 0
    THEN IF c = 60 THEN not_well_formed(st)
         ELSE [st EXCEPT !.buf = Append(@, c),
                         !.quote = IF c = st.quote THEN 0 ELSE @]
    ELSE IF c \in Quotes
    THEN [st EXCEPT !.buf = Append(@, c), !.quote = c]
    ELSE IF c = 60 THEN not_well_formed(st)
    ELSE IF c = 62 THEN markup(closed(st), st.buf)
    ELSE [st EXCEPT !.buf = Append(@, c)]

\* One character of a reference.
reference_char(st, c) ==
    IF c = 59
    THEN IF reference(st.buf) = InvalidToken THEN not_well_formed(st)
         ELSE [st EXCEPT !.mode = "text", !.buf = <<>>,
                         !.text = Append(@, reference(st.buf))]
    ELSE IF IsNameChar(c) \/ (c = 35 /\ st.buf = <<>>)
    THEN [st EXCEPT !.buf = Append(@, c)]
    ELSE not_well_formed(st)

\* One character of character data; a line ends with "\n" whatever the
\* file ends it with.
text_char(st, c) ==
    IF c = 60
    THEN [flush_text(st) EXCEPT !.mode = "markup", !.start = st.at,
                                !.cr = FALSE]
    ELSE IF c = 38 THEN [st EXCEPT !.mode = "ref", !.cr = FALSE]
    ELSE IF c = 13 THEN [st EXCEPT !.text = Append(@, 10), !.cr = TRUE]
    ELSE IF c = 10 /\ st.cr THEN [st EXCEPT !.cr = FALSE]
    ELSE IF c = 62 /\ endswith(st.text, <<93, 93>>) THEN not_well_formed(st)
    ELSE [st EXCEPT !.text = Append(@, c), !.cr = FALSE]

ByteOrderMark == 65279

advance(next) == [next EXCEPT !.at = @ + 1]

Parse_char(st, c) ==
    IF st.error THEN st
    ELSE IF c = ByteOrderMark /\ st.at = 0 /\ st.mode = "text" /\ ~st.cr
            /\ st.text = <<>>
    THEN st
    ELSE IF ~IsChar(c) THEN not_well_formed(st)
    ELSE advance(IF st.mode = "markup" THEN markup_char(st, c)
                 ELSE IF st.mode = "ref" THEN reference_char(st, c)
                 ELSE text_char(st, c))

\* parser.Parse(text): the calls made to the handlers, and whether the
\* document was well formed up to its end.
Parse_end(st) ==
    [events |-> st.events,
     error |-> \/ st.error
               \/ st.mode # "text"
               \/ st.open # <<>>
               \/ ~st.seen_root]

Parse_final(last) == Parse_end(IF last.error THEN last ELSE flush_text(last))

Parse(text) == Parse_final(ForEach(Parse_char, ParserCreate, text))

\* ------------------------------------------------------- plistlib.loads
\* int(raw) of a str: white space around an optional sign and decimal
\* digits (single underscores between digits are let through as well).
int_step(st, c) ==
    IF st.at = "bad" THEN st
    ELSE IF st.at = "sign"
    THEN IF c \in {43, 45} THEN [st EXCEPT !.at = "first", !.neg = c = 45]
         ELSE IF c \in 48..57 THEN [st EXCEPT !.at = "digit", !.n = c - 48]
         ELSE [st EXCEPT !.at = "bad"]
    ELSE IF c \in 48..57 /\ st.n < 100000000
    THEN [st EXCEPT !.at = "digit", !.n = (@ * 10) + (c - 48)]
    ELSE IF c = 95 /\ st.at = "digit" THEN [st EXCEPT !.at = "underscore"]
    ELSE [st EXCEPT !.at = "bad"]

int_of_hex(raw) ==
    With(hexadecimal(SubSeq(raw, 3, Len(raw))), LAMBDA n :
        IF Len(raw) > 2 /\ n >= 0 THEN [raised |-> "", value |-> PyInt(n)]
        ELSE [raised |-> "ValueError"])

int_of_str(raw) ==
    With(ForEach(int_step, [at |-> "sign", neg |-> FALSE, n |-> 0],
                 strip(raw)), LAMBDA st :
        IF st.at = "digit"
        THEN [raised |-> "", value |-> PyInt(IF st.neg THEN 0 - st.n
                                             ELSE st.n)]
        ELSE [raised |-> "ValueError"])

\* float(raw) of a str, for the numerals the model's files hold: a sign,
\* digits and a fraction that is nothing, zeros, or a 5 and zeros.
float_step(st, c) ==
    IF st.at = "bad" THEN st
    ELSE IF st.at = "sign"
    THEN IF c \in {43, 45} THEN [st EXCEPT !.at = "first", !.neg = c = 45]
         ELSE IF c \in 48..57 THEN [st EXCEPT !.at = "digit", !.n = c - 48]
         ELSE IF c = 46 THEN [st EXCEPT !.at = "bare_point"]
         ELSE [st EXCEPT !.at = "bad"]
    ELSE IF st.at \in {"first", "digit"}
    THEN IF c \in 48..57 /\ st.n < 100000000
         THEN [st EXCEPT !.at = "digit", !.n = (@ * 10) + (c - 48)]
         ELSE IF c = 46
         THEN [st EXCEPT !.at = IF st.at = "digit" THEN "point"
                                ELSE "bare_point"]
         ELSE [st EXCEPT !.at = "bad"]
    ELSE IF st.at \in {"point", "bare_point"} /\ c = 53
    THEN [st EXCEPT !.at = "zeros", !.half = 1]
    ELSE IF c = 48 THEN [st EXCEPT !.at = "zeros"]
    ELSE [st EXCEPT !.at = "bad"]

float_of_str(raw) ==
    With(ForEach(float_step,
                 [at |-> "sign", neg |-> FALSE, n |-> 0, half |-> 0],
                 strip(raw)), LAMBDA st :
        IF st.at \in {"digit", "point", "zeros"}
        THEN [raised |-> "",
              value |-> PyFloat(IF st.neg THEN 0 - ((2 * st.n) + st.half)
                                ELSE (2 * st.n) + st.half)]
        ELSE [raised |-> "ValueError"])

\* _PlistParser.__init__; a container being filled is on the stack with
\* the place it was given in its parent by add_object.
PlistParser ==
    [stack |-> <<>>, current_key |-> None, root |-> None, data |-> <<>>,
     raised |-> ""]

raise(p, class) == [p EXCEPT !.raised = class]

top(p) == p.stack[Len(p.stack)]

\* Where add_object puts a value: under the current key of the dict on top
\* of the stack, at the root, or at the end of the list on top.
place_of(p) ==
    IF p.current_key # None
    THEN IF p.stack = <<>> THEN [raised |-> "IndexError"]
         ELSE IF top(p).kind # "dict" THEN [raised |-> "ValueError"]
         ELSE [raised |-> "", at |-> "key", key |-> p.current_key.v]
    ELSE IF p.stack = <<>> THEN [raised |-> "", at |-> "root", key |-> <<>>]
    ELSE IF top(p).kind # "list" THEN [raised |-> "ValueError"]
    ELSE [raised |-> "", at |-> "append", key |-> <<>>]

\* The value goes to its place.
put(p, place, value) ==
    IF place.at = "root" THEN [p EXCEPT !.root = value]
    ELSE IF place.at = "key"
    THEN [p EXCEPT !.stack[Len(p.stack)].items =
                       set_item(PyDict(@), place.key, value).items]
    ELSE [p EXCEPT !.stack[Len(p.stack)].items = Append(@, value)]

add_object(p, value) ==
    With(place_of(p), LAMBDA place :
        IF place.raised # "" THEN raise(p, place.raised)
        ELSE [put(p, place, value) EXCEPT !.current_key = None])

\* begin_dict, begin_array
begin_container(p, kind) ==
    With(place_of(p), LAMBDA place :
        IF place.raised # "" THEN raise(p, place.raised)
        ELSE [p EXCEPT !.current_key = None,
                       !.stack = Append(@, [kind |-> kind, items |-> <<>>,
                                            place |-> place])])

\* stack.pop(): the container is complete where add_object has put it.
end_container(p) ==
    With(top(p), LAMBDA done :
        put([p EXCEPT !.stack = SubSeq(@, 1, Len(@) - 1)], done.place,
            IF done.kind = "dict" THEN PyDict(done.items)
            ELSE PyList(done.items)))

truthy(s) == s # None /\ s.v # <<>>

end_dict(p) ==
    IF truthy(p.current_key) THEN raise(p, "ValueError")
    ELSE end_container(p)

end_key(p) ==
    IF truthy(p.current_key) THEN raise(p, "ValueError")
    ELSE IF p.stack = <<>> THEN raise(p, "IndexError")
    ELSE IF top(p).kind # "dict" THEN raise(p, "ValueError")
    ELSE [p EXCEPT !.current_key = PyStr(p.data), !.data = <<>>]

end_converted(p, converted) ==
    IF converted.raised # "" THEN raise(p, converted.raised)
    ELSE add_object([p EXCEPT !.data = <<>>], converted.value)

ElementDict == Lit(<<"d", "i", "c", "t">>)
ElementArray == Lit(<<"a", "r", "r", "a", "y">>)
ElementKey == Lit(<<"k", "e", "y">>)
ElementTrue == Lit(<<"t", "r", "u", "e">>)
ElementFalse == Lit(<<"f", "a", "l", "s", "e">>)
ElementInteger == Lit(<<"i", "n", "t", "e", "g", "e", "r">>)
ElementReal == Lit(<<"r", "e", "a", "l">>)
ElementString == Lit(<<"s", "t", "r", "i", "n", "g">>)

\* handle_begin_element, handle_end_element, handle_data; an element
\* without a handler is passed over.
handle(p, event) ==
    IF p.raised # "" THEN p
    ELSE IF event.ev = "data" THEN [p EXCEPT !.data = @ \o event.arg]
    ELSE IF event.ev = "begin"
    THEN IF event.arg = ElementDict
         THEN begin_container([p EXCEPT !.data = <<>>], "dict")
         ELSE IF event.arg = ElementArray
         THEN begin_container([p EXCEPT !.data = <<>>], "list")
         ELSE [p EXCEPT !.data = <<>>]
    ELSE IF event.arg = ElementDict THEN end_dict(p)
    ELSE IF event.arg = ElementArray THEN end_container(p)
    ELSE IF event.arg = ElementKey THEN end_key(p)
    ELSE IF event.arg = ElementTrue THEN add_object(p, PyBool(TRUE))
    ELSE IF event.arg = ElementFalse THEN add_object(p, PyBool(FALSE))
    ELSE IF event.arg = ElementInteger
    THEN end_converted(p, IF startswith(p.data, <<48, 120>>)
                             \/ startswith(p.data, <<48, 88>>)
                          THEN int_of_hex(p.data) ELSE int_of_str(p.data))
    ELSE IF event.arg = ElementReal
    THEN end_converted(p, float_of_str(p.data))
    ELSE IF event.arg = ElementString
    THEN add_object([p EXCEPT !.data = <<>>], PyStr(p.data))
    ELSE p

\* _is_fmt_xml(header)
PrefixXml == Lit(<<"<", "?", "x", "m", "l">>)
PrefixPlist == Lit(<<"<", "p", "l", "i", "s", "t">>)
BOM_UTF8 == <<239, 187, 191>>

is_fmt_xml(header) ==
    \/ startswith(header, PrefixXml)
    \/ startswith(header, PrefixPlist)
    \/ startswith(header, BOM_UTF8 \o PrefixXml)
    \/ startswith(header, BOM_UTF8 \o PrefixPlist)

\* The encoding the XML declaration names: UTF-8, ISO-8859-1 and US-ASCII
\* are modelled, any other name is taken for one Python has no codec for.
DeclEnd == Lit(<<"?", ">">>)
Latin1 == Lit(<<"I", "S", "O", "-", "8", "8", "5", "9", "-", "1">>)
Utf8 == Lit(<<"U", "T", "F", "-", "8">>)
UsAscii == Lit(<<"U", "S", "-", "A", "S", "C", "I", "I">>)

upper(s) == [i \in 1..Len(s) |-> IF s[i] \in 97..122 THEN s[i] - 32
                                 ELSE s[i]]

before(s, part) ==
    IF contains(s, part)
    THEN SubSeq(s, 1, (CHOOSE i \in 1..Len(s) :
                          /\ startswith(SubSeq(s, i, Len(s)), part)
                          /\ \A j \in 1..(i - 1) :
                                ~startswith(SubSeq(s, j, Len(s)), part))
                      - 1)
    ELSE s

after(s, part) == SubSeq(s, Len(before(s, part)) + Len(part) + 1, Len(s))

encoding_value(eq, quoted) ==
    IF /\ eq # <<>>
       /\ eq[1] = 61
       /\ quoted # <<>>
       /\ quoted[1] \in Quotes
    THEN upper(list(before(Tail(quoted), <<quoted[1]>>)))
    ELSE Utf8

encoding_after(eq) == encoding_value(eq, lstrip(Tail(eq)))

encoding_of(head, decl) ==
    IF /\ startswith(head, PrefixXml)
       /\ contains(head, DeclEnd)
       /\ contains(decl, EncodingAttr)
    THEN encoding_after(lstrip(after(decl, EncodingAttr)))
    ELSE Utf8

encoding_in(head) == encoding_of(head, before(head, DeclEnd))

declared_encoding(data) ==
    encoding_in(SubSeq(data, 1, IF Len(data) < 100 THEN Len(data) ELSE 100))

\* The characters expat reads from the bytes: a byte sequence that is not
\* of the encoding is an invalid token where it stands.
expat_decode(data) ==
    IF declared_encoding(data) = Latin1 THEN data
    ELSE IF declared_encoding(data) = UsAscii
    THEN [i \in 1..Len(data) |-> IF data[i] < 128 THEN data[i]
                                 ELSE InvalidToken]
    ELSE utf8_decode(data, "token").value

\* What the handlers have built, or the exception of the handler or of the
\* parser.
loads_result(parsed, p) ==
    IF p.raised # "" THEN [raised |-> p.raised]
    ELSE IF parsed.error THEN [raised |-> "ExpatError"]
    ELSE [raised |-> "", value |-> p.root]

loads_parsed(parsed) ==
    loads_result(parsed, ForEach(handle, PlistParser, parsed.events))

\* plistlib.loads(value): the root object, or the exception raised.
plistlib_loads(value) ==
    IF ~is_fmt_xml(SubSeq(value, 1, IF Len(value) < 32 THEN Len(value)
                                    ELSE 32))
    THEN [raised |-> "InvalidFileException"]
    ELSE IF declared_encoding(value) \notin {Utf8, Latin1, UsAscii}
    THEN IF XmlDecl_ok(after_first_word(SubSeq(before(value, DeclEnd), 3,
                                               Len(before(value, DeclEnd)))))
            /\ first_word(SubSeq(before(value, DeclEnd), 3,
                                  Len(before(value, DeclEnd)))) = XmlTarget
            /\ declared_encoding(value) # <<>>
            /\ declared_encoding(value)[1] \in 65..90
         THEN [raised |-> "LookupError"]
         ELSE [raised |-> "ExpatError"]
    ELSE loads_parsed(Parse(list(expat_decode(value))))

\* ---------------------------------------- _convert_gd_plist_to_standard
\* What \s matches in a str pattern.
re_whitespace == (9..13) \cup (28..32) \cup {133, 160, 5760, 8232, 8233,
                                              8239, 8287, 12288}
                 \cup (8192..8202)

\* A pattern of the replacements: the characters of lead, then \s* if
\* spaces, then the characters of tail.
Pattern(lead, spaces, tail) ==
    [lead |-> lead, spaces |-> spaces, tail |-> tail]

matches_at(text, i, part) ==
    /\ (i + Len(part)) - 1 <= Len(text)
    /\ \A j \in 1..Len(part) : text[(i + j) - 1] = part[j]

\* The length of the match of the pattern that starts at text[i], 0 if
\* none does.
match_length(pattern, text, i) ==
    IF ~matches_at(text, i, pattern.lead) THEN 0
    ELSE LET from == i + Len(pattern.lead)
             skipped == IF pattern.spaces
                        THEN CHOOSE n \in 0..((Len(text) - from) + 1) :
                               /\ \A j \in from..((from + n) - 1) :
                                     text[j] \in re_whitespace
                               /\ \/ from + n > Len(text)
                                  \/ text[from + n] \notin re_whitespace
                        ELSE 0
         IN  IF matches_at(text, from + skipped, pattern.tail)
             THEN Len(pattern.lead) + skipped + Len(pattern.tail)
             ELSE 0

\* re.sub(pattern, replacement, text): the matches are taken from left to
\* right, none inside another.  Only a place where the first character of
\* the pattern stands can start a match.
re_sub_step(pattern, text, st, i) ==
    IF i < st.next \/ match_length(pattern, text, i) = 0 THEN st
    ELSE [next |-> i + match_length(pattern, text, i),
          matches |-> Append(st.matches,
                             <<i, i + match_length(pattern, text, i)>>)]

re_sub(pattern, replacement, text) ==
    LET places == SelectSeq([i \in 1..Len(text) |-> i],
                            LAMBDA i : text[i] = pattern.lead[1])
        found == ForEach(LAMBDA st, i : re_sub_step(pattern, text, st, i),
                         [next |-> 1, matches |-> <<>>], places).matches
        from(k) == IF k = 1 THEN 1 ELSE found[k - 1][2]
    IN  IF found = <<>> THEN text
        ELSE join([k \in 1..Len(found) |->
                     SubSeq(text, from(k), found[k][1] - 1) \o replacement])
             \o SubSeq(text, found[Len(found)][2], Len(text))

replacements ==
    << <<Pattern(Lit(<<"<", "k", ">">>), FALSE, <<>>), Lit(<<"<", "k", "e",
        "y", ">">>)>>,
       <<Pattern(Lit(<<"<", "i", ">">>), FALSE, <<>>), Lit(<<"<", "i", "n",
           "t", "e", "g", "e", "r", ">">>)>>,
       <<Pattern(Lit(<<"<", "s", ">">>), FALSE, <<>>), Lit(<<"<", "s", "t",
           "r", "i", "n", "g", ">">>)>>,
       <<Pattern(Lit(<<"<", "r", ">">>), FALSE, <<>>), Lit(<<"<", "r", "e",
           "a", "l", ">">>)>>,
       <<Pattern(Lit(<<"<", "d", ">">>), FALSE, <<>>), Lit(<<"<", "d", "i",
           "c", "t", ">">>)>>,
       <<Pattern(Lit(<<"<", "a", ">">>), FALSE, <<>>), Lit(<<"<", "a", "r",
           "r", "a", "y", ">">>)>>,
       <<Pattern(Lit(<<"<", "/", "k", ">">>), FALSE, <<>>), Lit(<<"<", "/",
           "k", "e", "y", ">">>)>>,
       <<Pattern(Lit(<<"<", "/", "i", ">">>), FALSE, <<>>), Lit(<<"<", "/",
           "i", "n", "t", "e", "g", "e", "r", ">">>)>>,
       <<Pattern(Lit(<<"<", "/", "s", ">">>), FALSE, <<>>), Lit(<<"<", "/",
           "s", "t", "r", "i", "n", "g", ">">>)>>,
       <<Pattern(Lit(<<"<", "/", "r", ">">>), FALSE, <<>>), Lit(<<"<", "/",
           "r", "e", "a", "l", ">">>)>>,
       <<Pattern(Lit(<<"<", "/", "d", ">">>), FALSE, <<>>), Lit(<<"<", "/",
           "d", "i", "c", "t", ">">>)>>,
       <<Pattern(Lit(<<"<", "/", "a", ">">>), FALSE, <<>>), Lit(<<"<", "/",
           "a", "r", "r", "a", "y", ">">>)>>,
       <<Pattern(Lit(<<"<", "t">>), TRUE, Lit(<<"/", ">">>)), Lit(<<"<", "t",
           "r", "u", "e", "/", ">">>)>>,
       <<Pattern(Lit(<<"<", "f">>), TRUE, Lit(<<"/", ">">>)), Lit(<<"<", "f",
           "a", "l", "s", "e", "/", ">">>)>> >>

convert_gd_plist_to_standard(gd_plist) ==
    ForEach(LAMBDA result, r : re_sub(r[1], r[2], result), gd_plist,
            replacements)

\* ------------------------------------------------------- plistlib.dumps
\* a < b for two str: the first character that differs decides, a proper
\* prefix comes first.
str_less(a, b) ==
    \E k \in 1..(Len(b)) :
        /\ \A j \in 1..(k - 1) : j <= Len(a) /\ a[j] = b[j]
        /\ k - 1 <= Len(a)
        /\ \/ k > Len(a)
           \/ a[k] < b[k]

\* sorted(d.items()) of a dict.
sorted_items(items) ==
    LET rank(i) == 1 + Cardinality({j \in 1..Len(items) :
                                      str_less(items[j][1], items[i][1])})
    IN  [r \in 1..Len(items) |->
            items[CHOOSE i \in 1..Len(items) : rank(i) = r]]

\* _controlCharPat
IsControlChar(c) == c \in (0..8) \cup {11, 12} \cup (14..31)

\* _escape(text), where there is no control character in it.
plist_escape(text) ==
    escaped(join([i \in 1..Len(text) |->
                    IF text[i] = 13 THEN <<10>>
                    ELSE IF text[i] = 10 /\ i > 1 /\ text[i - 1] = 13
                    THEN <<>>
                    ELSE <<text[i]>>]))

PLISTHEADER ==
    Lit(<<"<", "?", "x", "m", "l", " ", "v", "e", "r", "s", "i", "o", "n",
        "=", "\"", "1", ".", "0", "\"", " ", "e", "n", "c", "o", "d", "i",
        "n", "g", "=", "\"", "U", "T", "F", "-", "8", "\"", "?",
        ">">>) \o <<10>>
    \o Lit(<<"<", "!", "D", "O", "C", "T", "Y", "P", "E", " ", "p", "l", "i",
        "s", "t", " ", "P", "U", "B", "L", "I", "C", " ", "\"", "-", "/",
        "/", "A", "p", "p", "l", "e", "/", "/", "D", "T", "D", " ", "P", "L",
        "I", "S", "T", " ", "1", ".", "0", "/", "/", "E", "N", "\"", " ",
        "\"", "h", "t", "t", "p", ":", "/", "/", "w", "w", "w", ".", "a",
        "p", "p", "l", "e", ".", "c", "o", "m", "/", "D", "T", "D", "s", "/",
        "P", "r", "o", "p", "e", "r", "t", "y", "L", "i", "s", "t", "-", "1",
        ".", "0", ".", "d", "t", "d", "\"", ">">>)
    \o <<10>>

tabs(indent_level) == [i \in 1..indent_level |-> 9]

\* writeln(line)
writeln(indent_level, line) == tabs(indent_level) \o line \o <<10>>

\* simple_element(element, value)
simple_element(indent_level, element, value) ==
    writeln(indent_level,
            <<60>> \o element \o <<62>> \o plist_escape(value)
            \o <<60, 47>> \o element \o <<62>>)

\* simple_element(element)
empty_element(indent_level, element) ==
    writeln(indent_level, <<60>> \o element \o <<47, 62>>)

begin_element(indent_level, element) ==
    writeln(indent_level, <<60>> \o element \o <<62>>)

end_element(indent_level, element) ==
    writeln(indent_level, <<60, 47>> \o element \o <<62>>)

\* repr(value) of a float.
float_repr(value) ==
    IF value.halves % 2 = 0
    THEN int_to_str(value.halves \div 2) \o Lit(<<".", "0">>)
    ELSE float_to_str(value)

\* Whether write_value raises for the value or for something in it, and
\* what.
RECURSIVE write_raises(_)
write_raises(value) ==
    IF value = None THEN "TypeError"
    ELSE IF isinstance(value, "str")
    THEN IF \E i \in 1..Len(value.v) : IsControlChar(value.v[i])
         THEN "ValueError" ELSE ""
    ELSE IF isinstance(value, "dict")
    THEN LET items == sorted_items(value.items)
             bad(i) == \/ \E j \in 1..Len(items[i][1]) :
                             IsControlChar(items[i][1][j])
                       \/ write_raises(items[i][2]) # ""
         IN  IF \E i \in 1..Len(items) : bad(i)
             THEN LET i == CHOOSE i \in 1..Len(items) :
                             bad(i) /\ \A j \in 1..(i - 1) : ~bad(j)
                  IN  IF \E j \in 1..Len(items[i][1]) :
                             IsControlChar(items[i][1][j])
                      THEN "ValueError"
                      ELSE write_raises(items[i][2])
             ELSE ""
    ELSE IF isinstance(value, "list")
    THEN IF \E i \in 1..Len(value.items) : write_raises(value.items[i]) # ""
         THEN write_raises(value.items[
                  CHOOSE i \in 1..Len(value.items) :
                      /\ write_raises(value.items[i]) # ""
                      /\ \A j \in 1..(i - 1) :
                            write_raises(value.items[j]) = ""])
         ELSE ""
    ELSE ""

\* write_value(value), where it does not raise.
RECURSIVE write_value(_, _)
write_value(indent_level, value) ==
    IF isinstance(value, "str")
    THEN simple_element(indent_level, ElementString, value.v)
    ELSE IF isinstance(value, "bool")
    THEN empty_element(indent_level,
                       IF value.v THEN ElementTrue ELSE ElementFalse)
    ELSE IF isinstance(value, "int")
    THEN simple_element(indent_level, ElementInteger, int_to_str(value.v))
    ELSE IF isinstance(value, "float")
    THEN simple_element(indent_level, ElementReal, float_repr(value))
    ELSE IF isinstance(value, "dict")
    THEN IF value.items = <<>> THEN empty_element(indent_level, ElementDict)
         ELSE LET items == sorted_items(value.items)
              IN  begin_element(indent_level, ElementDict)
                  \o join([i \in 1..Len(items) |->
                             simple_element(indent_level + 1, ElementKey,
                                            items[i][1])
                             \o write_value(indent_level + 1, items[i][2])])
                  \o end_element(indent_level, ElementDict)
    ELSE IF value.items = <<>> THEN empty_element(indent_level, ElementArray)
    ELSE begin_element(indent_level, ElementArray)
         \o join([i \in 1..Len(value.items) |->
                    write_value(indent_level + 1, value.items[i])])
         \o end_element(indent_level, ElementArray)

\* plistlib.dumps(value, fmt=plistlib.FMT_XML): the bytes, or the
\* exception raised.
plistlib_dumps(value) ==
    IF write_raises(value) # "" THEN [raised |-> write_raises(value)]
    ELSE utf8_encode(PLISTHEADER
                     \o writeln(0, Lit(<<"<", "p", "l", "i", "s", "t", " ",
                         "v", "e", "r", "s", "i", "o", "n", "=", "\"", "1",
                         ".", "0", "\"", ">">>))
                     \o write_value(0, value)
                     \o writeln(0, Lit(<<"<", "/", "p", "l", "i", "s", "t",
                         ">">>)))

\* ------------------------------------------------------------------ zlib
\* Adler-32, the checksum of a zlib stream, high bytes first.
adler32(data) ==
    LET sums == ForEach(LAMBDA s, b :
                            [a |-> (s.a + b) % 65521,
                             b |-> (s.b + ((s.a + b) % 65521)) % 65521],
                        [a |-> 1, b |-> 0], data)
    IN  <<sums.b \div 256, sums.b % 256, sums.a \div 256, sums.a % 256>>

\* zlib.compress(data): the two header bytes of level 6, the deflate
\* stream, the checksum.
zlib_compress(data) == <<120, 156>> \o deflate(data) \o adler32(data)

\* zlib.decompress(data)
zlib_decompress(data) ==
    IF Len(data) < 2 THEN [raised |-> "zlib.error"]
    ELSE IF \/ data[1] % 16 # 8
            \/ data[1] \div 16 > 7
            \/ ((data[1] * 256) + data[2]) % 31 # 0
            \/ (data[2] \div 32) % 2 = 1
    THEN [raised |-> "zlib.error"]
    ELSE LET do == inflate(SubSeq(data, 3, Len(data)))
         IN  IF do.raised # "" THEN [raised |-> "zlib.error"]
             ELSE IF ~do.eof \/ Len(do.unused_data) < 4
             THEN [raised |-> "zlib.error"]
             ELSE IF SubSeq(do.unused_data, 1, 4) # adler32(do.value)
             THEN [raised |-> "zlib.error"]
             ELSE [raised |-> "", value |-> do.value]

\* ------------------------------------------------------------------ json
\* json.loads and json.dumps for null, true, false, integers, numbers that
\* are a multiple of one half, strings, arrays and objects.
JsonWhitespace == {9, 10, 13, 32}

JsonPunctuation == {123, 125, 91, 93, 58, 44}

JsonNull == Lit(<<"n", "u", "l", "l">>)
JsonTrue == Lit(<<"t", "r", "u", "e">>)
JsonFalse == Lit(<<"f", "a", "l", "s", "e">>)

hex4(n) ==
    LET digit(d) == IF d < 10 THEN 48 + d ELSE 87 + d
    IN  <<digit(n \div 4096), digit((n \div 256) % 16),
          digit((n \div 16) % 16), digit(n % 16)>>

\* A JSON number: -?(0|[1-9][0-9]*) and a fraction.
number_step(st, c) ==
    IF st.at = "bad" THEN st
    ELSE IF st.at = "sign"
    THEN IF c = 45 THEN [st EXCEPT !.at = "first", !.neg = TRUE]
         ELSE IF c = 48 THEN [st EXCEPT !.at = "zero"]
         ELSE IF c \in 49..57 THEN [st EXCEPT !.at = "digit", !.n = c - 48]
         ELSE [st EXCEPT !.at = "bad"]
    ELSE IF st.at = "first"
    THEN IF c = 48 THEN [st EXCEPT !.at = "zero"]
         ELSE IF c \in 49..57 THEN [st EXCEPT !.at = "digit", !.n = c - 48]
         ELSE [st EXCEPT !.at = "bad"]
    ELSE IF st.at \in {"zero", "digit"} /\ c = 46
    THEN [st EXCEPT !.at = "point"]
    ELSE IF st.at = "digit" /\ c \in 48..57 /\ st.n < 100000000
    THEN [st EXCEPT !.n = (@ * 10) + (c - 48)]
    ELSE IF st.at = "point" /\ c \in {48, 53}
    THEN [st EXCEPT !.at = "fraction", !.half = IF c = 53 THEN 1 ELSE 0]
    ELSE IF st.at = "fraction" /\ c = 48 THEN st
    ELSE [st EXCEPT !.at = "bad"]

json_number(word) ==
    LET st == ForEach(number_step,
                      [at |-> "sign", neg |-> FALSE, n |-> 0, half |-> 0],
                      word)
        sign == IF st.neg THEN 0 - 1 ELSE 1
    IN  IF st.at \in {"zero", "digit"} THEN PyInt(sign * st.n)
        ELSE IF st.at = "fraction"
        THEN PyFloat(sign * ((2 * st.n) + st.half))
        ELSE None

\* A token: a punctuation mark, a word (literal or number) or a string.
Token(kind, arg) == [kind |-> kind, arg |-> arg]

scan_word(st) ==
    IF st.buf = <<>> THEN st
    ELSE LET value == IF st.buf = JsonNull THEN None
                      ELSE IF st.buf = JsonTrue THEN PyBool(TRUE)
                      ELSE IF st.buf = JsonFalse THEN PyBool(FALSE)
                      ELSE json_number(st.buf)
         IN  IF st.buf # JsonNull /\ value = None
             THEN [st EXCEPT !.error = TRUE]
             ELSE [st EXCEPT !.buf = <<>>,
                             !.tokens = Append(@, Token("value", value))]

\* The character after a backslash in a string (two \u escapes, of a high
\* and a low surrogate, make one character).
json_escape(c) ==
    IF c \in {34, 92, 47} THEN c
    ELSE IF c = 98 THEN 8
    ELSE IF c = 102 THEN 12
    ELSE IF c = 110 THEN 10
    ELSE IF c = 114 THEN 13
    ELSE IF c = 116 THEN 9
    ELSE 0 - 1

scan_step(st, c) ==
    IF st.error THEN st
    ELSE IF st.at = "string"
    THEN IF c = 34
         THEN [st EXCEPT !.at = "between", !.buf = <<>>, !.high = FALSE,
                         !.tokens = Append(@, Token("string", st.buf))]
         ELSE IF c = 92 THEN [st EXCEPT !.at = "escape"]
         ELSE IF c < 32 THEN [st EXCEPT !.error = TRUE]
         ELSE [st EXCEPT !.buf = Append(@, c), !.high = FALSE]
    ELSE IF st.at = "escape"
    THEN IF c = 117 THEN [st EXCEPT !.at = "hex", !.hex = <<>>]
         ELSE IF json_escape(c) < 0 THEN [st EXCEPT !.error = TRUE]
         ELSE [st EXCEPT !.at = "string", !.high = FALSE,
                         !.buf = Append(@, json_escape(c))]
    ELSE IF st.at = "hex"
    THEN IF HexDigit(c) < 0 THEN [st EXCEPT !.error = TRUE]
         ELSE IF Len(st.hex) = 3
         THEN LET unit == hexadecimal(Append(st.hex, c))
              IN  IF st.high /\ unit \in 56320..57343
                  THEN [st EXCEPT
                          !.at = "string", !.high = FALSE,
                          !.buf[Len(st.buf)] =
                              65536 + ((@ - 55296) * 1024) + (unit - 56320)]
                  ELSE [st EXCEPT !.at = "string",
                                  !.high = unit \in 55296..56319,
                                  !.buf = Append(@, unit)]
         ELSE [st EXCEPT !.hex = Append(@, c)]
    ELSE IF c \in JsonWhitespace THEN scan_word(st)
    ELSE IF c \in JsonPunctuation
    THEN [scan_word(st) EXCEPT !.tokens = Append(@, Token("mark", c))]
    ELSE IF c = 34
    THEN IF st.buf # <<>> THEN [st EXCEPT !.error = TRUE]
         ELSE [st EXCEPT !.at = "string"]
    ELSE [st EXCEPT !.buf = Append(@, c)]

\* The containers being read are on the stack, each with what may come
\* next in it.
read_value(st, value) ==
    IF st.stack = <<>>
    THEN [st EXCEPT !.expect = "end", !.result = value]
    ELSE LET frame == st.stack[Len(st.stack)]
         IN  [st EXCEPT !.expect = "comma",
                        !.stack[Len(st.stack)].items =
                            IF frame.kind = "dict"
                            THEN set_item(PyDict(@), frame.key, value).items
                            ELSE Append(@, value)]

close(st) ==
    LET frame == st.stack[Len(st.stack)]
    IN  read_value([st EXCEPT !.stack = SubSeq(@, 1, Len(@) - 1)],
                   IF frame.kind = "dict" THEN PyDict(frame.items)
                   ELSE PyList(frame.items))

open(st, kind) ==
    [st EXCEPT !.stack = Append(@, [kind |-> kind, items |-> <<>>,
                                    key |-> <<>>]),
               !.expect = IF kind = "dict" THEN "key_or_close"
                          ELSE "value_or_close"]

kind_of_top(st) ==
    IF st.stack = <<>> THEN "" ELSE st.stack[Len(st.stack)].kind

read_token(st, token) ==
    LET bad == [st EXCEPT !.error = TRUE]
        mark == IF token.kind = "mark" THEN token.arg ELSE 0
    IN  IF st.error THEN st
        ELSE IF st.expect \in {"value", "value_or_close"}
        THEN IF token.kind = "value" THEN read_value(st, token.arg)
             ELSE IF token.kind = "string"
             THEN read_value(st, PyStr(token.arg))
             ELSE IF mark = 123 THEN open(st, "dict")
             ELSE IF mark = 91 THEN open(st, "list")
             ELSE IF mark = 93 /\ st.expect = "value_or_close" THEN close(st)
             ELSE bad
        ELSE IF st.expect \in {"key", "key_or_close"}
        THEN IF token.kind = "string"
             THEN [st EXCEPT !.expect = "colon",
                             !.stack[Len(st.stack)].key = token.arg]
             ELSE IF mark = 125 /\ st.expect = "key_or_close" THEN close(st)
             ELSE bad
        ELSE IF st.expect = "colon"
        THEN IF mark = 58 THEN [st EXCEPT !.expect = "value"] ELSE bad
        ELSE IF st.expect = "comma"
        THEN IF mark = 44
             THEN [st EXCEPT !.expect = IF kind_of_top(st) = "dict"
                                        THEN "key" ELSE "value"]
             ELSE IF mark = 125 /\ kind_of_top(st) = "dict" THEN close(st)
             ELSE IF mark = 93 /\ kind_of_top(st) = "list" THEN close(st)
             ELSE bad
        ELSE bad

\* json.loads(s) of a str.
json_loads(s) ==
    LET scanned == scan_word(ForEach(scan_step,
                                     [at |-> "between", buf |-> <<>>,
                                      hex |-> <<>>, high |-> FALSE,
                                      tokens |-> <<>>,
                                      error |-> FALSE], s))
        read == ForEach(read_token,
                        [stack |-> <<>>, expect |-> "value",
                         result |-> None, error |-> FALSE],
                        scanned.tokens)
    IN  IF scanned.error \/ scanned.at # "between" \/ read.error
           \/ read.expect # "end"
        THEN [raised |-> "JSONDecodeError"]
        ELSE [raised |-> "", value |-> read.result]

\* The str in quotes, as ensure_ascii writes it.
json_string(s) ==
    <<34>>
    \o join([i \in 1..Len(s) |->
               IF s[i] \in {34, 92} THEN <<92, s[i]>>
               ELSE IF s[i] = 10 THEN <<92, 110>>
               ELSE IF s[i] = 13 THEN <<92, 114>>
               ELSE IF s[i] = 9 THEN <<92, 116>>
               ELSE IF s[i] = 8 THEN <<92, 98>>
               ELSE IF s[i] = 12 THEN <<92, 102>>
               ELSE IF s[i] \in 32..126 THEN <<s[i]>>
               ELSE IF s[i] < 65536 THEN <<92, 117>> \o hex4(s[i])
               ELSE <<92, 117>> \o hex4(55296 + ((s[i] - 65536) \div 1024))
                    \o <<92, 117>> \o hex4(56320 + ((s[i] - 65536) % 1024))])
    \o <<34>>

spaces(n) == [i \in 1..n |-> 32]

\* json.dumps(obj, indent=2), level containers deep.
RECURSIVE json_value(_, _)
json_value(obj, level) ==
    IF obj = None THEN JsonNull
    ELSE IF isinstance(obj, "bool")
    THEN IF obj.v THEN JsonTrue ELSE JsonFalse
    ELSE IF isinstance(obj, "int") THEN int_to_str(obj.v)
    ELSE IF isinstance(obj, "float") THEN float_repr(obj)
    ELSE IF isinstance(obj, "str") THEN json_string(obj.v)
    ELSE IF obj.items = <<>>
    THEN IF isinstance(obj, "dict") THEN <<123, 125>> ELSE <<91, 93>>
    ELSE <<IF isinstance(obj, "dict") THEN 123 ELSE 91, 10>>
         \o join([i \in 1..Len(obj.items) |->
                    spaces(2 * (level + 1))
                    \o (IF isinstance(obj, "dict")
                        THEN json_string(obj.items[i][1]) \o <<58, 32>>
                             \o json_value(obj.items[i][2], level + 1)
                        ELSE json_value(obj.items[i], level + 1))
                    \o (IF i < Len(obj.items) THEN <<44, 10>> ELSE <<10>>)])
         \o spaces(2 * level)
         \o <<IF isinstance(obj, "dict") THEN 125 ELSE 93>>

json_dumps(obj) == json_value(obj, 0)

\* --------------------------------------------------------------- zipfile
\* An archive: a local record per entry (signature, name, deflated
\* content) and the end record with the number of entries stand for the
\* ZIP format.
LocalSignature == <<80, 75, 3, 4>>
EndSignature == <<80, 75, 5, 6>>

zip_entry(name, content) ==
    LocalSignature \o <<Len(name)>> \o name \o deflate(content)

\* What ZipFile.close() leaves in the file.
zip_archive(entries) ==
    join([i \in 1..Len(entries) |-> zip_entry(entries[i][1], entries[i][2])])
    \o EndSignature \o <<Len(entries)>>

RECURSIVE zip_entries(_, _)
zip_entries(data, n) ==
    IF n = 0
    THEN IF data = <<>> THEN [raised |-> "", value |-> <<>>]
         ELSE [raised |-> "BadZipFile"]
    ELSE IF ~startswith(data, LocalSignature) \/ Len(data) < 5
            \/ Len(data) < 5 + data[5]
    THEN [raised |-> "BadZipFile"]
    ELSE LET name == SubSeq(data, 6, 5 + data[5])
             do == inflate(SubSeq(data, 6 + data[5], Len(data)))
         IN  IF do.raised # "" THEN [raised |-> "BadZipFile"]
             ELSE IF ~do.eof THEN [raised |-> "BadZipFile"]
             ELSE LET rest == zip_entries(do.unused_data, n - 1)
                  IN  IF rest.raised # "" THEN rest
                      ELSE [raised |-> "",
                            value |-> <<<<name, do.value>>>> \o rest.value]

\* zipfile.ZipFile(file_path, 'r'): the entries, <<name, content>> each.
ZipFile(data) ==
    IF Len(data) < 5 \/ SubSeq(data, Len(data) - 4, Len(data) - 1)
                        # EndSignature
    THEN [raised |-> "BadZipFile"]
    ELSE zip_entries(SubSeq(data, 1, Len(data) - 5), data[Len(data)])

namelist(zip_file) == [i \in 1..Len(zip_file) |-> zip_file[i][1]]

in_namelist(zip_file, name) ==
    \E i \in 1..Len(zip_file) : zip_file[i][1] = name

\* zip_file.read(name): of two entries of one name the later one.
zip_read(zip_file, name) ==
    zip_file[CHOOSE i \in 1..Len(zip_file) :
                /\ zip_file[i][1] = name
                /\ \A j \in (i + 1)..Len(zip_file) : zip_file[j][1] # name][2]

\* -------------------------------------------------------------- pathlib
rstrip_slashes(p) ==
    IF \A i \in 1..Len(p) : p[i] = 47 THEN <<>>
    ELSE SubSeq(p, 1, CHOOSE i \in 1..Len(p) :
                        /\ p[i] # 47
                        /\ \A j \in (i + 1)..Len(p) : p[j] = 47)

\* Path(file_path).name, where no component is "." or "..".
path_name(file_path) ==
    With(rstrip_slashes(file_path), LAMBDA p :
        IF \E i \in 1..Len(p) : p[i] = 47
        THEN SubSeq(p, 1 + CHOOSE i \in 1..Len(p) :
                             /\ p[i] = 47
                             /\ \A j \in (i + 1)..Len(p) : p[j] # 47,
                    Len(p))
        ELSE p)

\* Path(file_path).suffix
suffix(file_path) ==
    With(path_name(file_path), LAMBDA name :
    With({i \in 1..Len(name) : name[i] = 46}, LAMBDA dots :
    With(IF dots = {} THEN 0
         ELSE CHOOSE d \in dots : \A e \in dots : e <= d, LAMBDA i :
        IF 1 < i /\ i < Len(name) THEN SubSeq(name, i, Len(name))
        ELSE <<>>)))

\* str.lower()
lower(s) ==
    [i \in 1..Len(s) |->
        IF s[i] \in 65..90 \/ (s[i] \in 192..222 /\ s[i] # 215)
        THEN s[i] + 32 ELSE s[i]]

ExtGmd == Lit(<<".", "g", "m", "d">>)
ExtLvl == Lit(<<".", "l", "v", "l">>)
ExtGmd2 == Lit(<<".", "g", "m", "d", "2">>)
ExtMp3 == Lit(<<".", "m", "p", "3">>)

\* ------------------------------------------------------------ the files
\* The file system: what is at each path.
Absent == [exists |-> FALSE, data |-> <<>>]

File(data) == [exists |-> TRUE, data |-> data]

\* The outcome of a call: the exception raised ("" if none), for the
\* ValueError of this module its message and the exception named in it,
\* the reader or writer the call went to, the paths opened, the value
\* returned and the files after the call.
Ended(raised, variant, opened, value, files) ==
    [raised |-> raised, message |-> "", cause |-> "", context |-> "",
     variant |-> variant, opened |-> opened, value |-> value,
     files |-> files]

\* ------------------------------------------------------------ _read_gmd
read_gmd(files, file_path) ==
    IF ~files[file_path].exists
    THEN Ended("FileNotFoundError", "gmd", {file_path}, None, files)
    ELSE With(files[file_path].data, LAMBDA data :
         With(utf8_decode(data, "strict"), LAMBDA gd_plist_text :
         With(IF gd_plist_text.raised # "" THEN gd_plist_text
              ELSE utf8_encode(convert_gd_plist_to_standard(
                                   gd_plist_text.value)),
              LAMBDA standard_plist :
         With(IF standard_plist.raised # "" THEN standard_plist
              ELSE plistlib_loads(standard_plist.value), LAMBDA converted :
             IF converted.raised = ""
             THEN Ended("", "gmd", {file_path}, converted.value, files)
             ELSE With(plistlib_loads(data), LAMBDA direct :
                 IF direct.raised = ""
                 THEN Ended("", "gmd", {file_path}, direct.value, files)
                 ELSE [Ended("ValueError", "gmd", {file_path}, None, files)
                       EXCEPT !.message = "cannot parse GMD file",
                              !.cause = converted.raised,
                              !.context = direct.raised])))))

\* ------------------------------------------------------------ _read_lvl
read_lvl(files, file_path) ==
    IF ~files[file_path].exists
    THEN Ended("FileNotFoundError", "lvl", {file_path}, None, files)
    ELSE With(files[file_path].data, LAMBDA compressed_data :
         With(zlib_decompress(compressed_data), LAMBDA inflated :
         With(IF inflated.raised = "" THEN inflated
              ELSE gzip_decompress(compressed_data),
              LAMBDA decompressed_data :
         With(IF decompressed_data.raised # "" THEN decompressed_data
              ELSE plistlib_loads(decompressed_data.value),
              LAMBDA plist_data :
             IF plist_data.raised # ""
             THEN Ended(plist_data.raised, "lvl", {file_path}, None, files)
             ELSE Ended("", "lvl", {file_path}, plist_data.value,
                        files)))))

\* ----------------------------------------------------------- _read_gmd2
LevelDataEntry == Lit(<<"l", "e", "v", "e", "l", ".", "d", "a", "t", "a">>)
LevelMetaEntry == Lit(<<"l", "e", "v", "e", "l", ".", "m", "e", "t", "a">>)
KeyLevelData == Lit(<<"l", "e", "v", "e", "l", "_", "d", "a", "t", "a">>)
KeyMetadata == Lit(<<"m", "e", "t", "a", "d", "a", "t", "a">>)
KeySongFile == Lit(<<"s", "o", "n", "g", "_", "f", "i", "l", "e">>)
KeySongFilePath == Lit(<<"s", "o", "n", "g", "_", "f", "i", "l", "e", "_",
    "p", "a", "t", "h">>)

\* The name of the last entry that ends with ".mp3", None without one.
song_file_of(zip_file) ==
    With({i \in 1..Len(zip_file) : endswith(zip_file[i][1], ExtMp3)},
         LAMBDA songs :
        IF songs = {} THEN None
        ELSE PyStr(zip_file[CHOOSE i \in songs : \A j \in songs : j <= i][1]))

\* json.loads(meta_data.decode('utf-8'))
meta_loads(meta_data) ==
    IF meta_data.raised # "" THEN meta_data ELSE json_loads(meta_data.value)

read_gmd2(files, file_path) ==
    IF ~files[file_path].exists
    THEN Ended("FileNotFoundError", "gmd2", {file_path}, None, files)
    ELSE With(ZipFile(files[file_path].data), LAMBDA zip_file :
         IF zip_file.raised # ""
         THEN Ended(zip_file.raised, "gmd2", {file_path}, None, files)
         ELSE
         With(IF in_namelist(zip_file.value, LevelDataEntry)
              THEN plistlib_loads(zip_read(zip_file.value, LevelDataEntry))
              ELSE [raised |-> "", value |-> None], LAMBDA level_data :
         IF level_data.raised # ""
         THEN Ended(level_data.raised, "gmd2", {file_path}, None, files)
         ELSE
         With(IF in_namelist(zip_file.value, LevelMetaEntry)
              THEN meta_loads(utf8_decode(zip_read(zip_file.value,
                                                   LevelMetaEntry),
                                          "strict"))
              ELSE [raised |-> "", value |-> None], LAMBDA metadata :
         IF metadata.raised # ""
         THEN Ended(metadata.raised, "gmd2", {file_path}, None, files)
         ELSE Ended("", "gmd2", {file_path},
                    PyDict(<< <<KeyLevelData, level_data.value>>,
                              <<KeyMetadata, metadata.value>>,
                              <<KeySongFile,
                                song_file_of(zip_file.value)>> >>),
                    files))))

\* -------------------------------------------------------- read_gmd_file
unsupported_format(files) ==
    [Ended("ValueError", "", {}, None, files)
     EXCEPT !.message = "unsupported file format"]

read_by_content(files, file_path) ==
    IF files[file_path].exists
       /\ startswith(files[file_path].data, <<80, 75>>)
    THEN read_gmd2(files, file_path)
    ELSE IF suffix(file_path) = ExtGmd THEN read_gmd(files, file_path)
    ELSE IF suffix(file_path) = ExtLvl THEN read_lvl(files, file_path)
    ELSE IF suffix(file_path) = ExtGmd2 THEN read_gmd2(files, file_path)
    ELSE read_gmd(files, file_path)
read_gmd_file(files, file_path) ==
    With(lower(suffix(file_path)), LAMBDA extension :
        IF extension = ExtGmd THEN read_gmd(files, file_path)
        ELSE IF extension = ExtLvl THEN read_lvl(files, file_path)
        ELSE IF extension = ExtGmd2 THEN read_gmd2(files, file_path)
        ELSE unsupported_format(files))

\* ------------------------------------------------------------ _save_gmd
\* open(file_path, 'w', encoding='utf-8') empties the file before
\* anything is written to it.
save_gmd(files, file_path, data) ==
    IF ~isinstance(data, "dict")
    THEN Ended("AttributeError", "gmd", {}, None, files)
    ELSE With(utf8_encode(gd_xml(data)), LAMBDA written :
             IF written.raised # ""
             THEN Ended(written.raised, "gmd", {file_path}, None,
                          [files EXCEPT ![file_path] = File(<<>>)])
             ELSE Ended("", "gmd", {file_path}, None,
                          [files EXCEPT ![file_path] = File(written.value)]))

\* ------------------------------------------------------------ _save_lvl
save_lvl(files, file_path, data) ==
    With(plistlib_dumps(data), LAMBDA plist_data :
        IF plist_data.raised # ""
        THEN Ended(plist_data.raised, "lvl", {}, None, files)
        ELSE Ended("", "lvl", {file_path}, None,
                     [files EXCEPT ![file_path] =
                          File(zlib_compress(plist_data.value))]))

\* ----------------------------------------------------------- _save_gmd2
\* 'key' in data, for whatever data is.
is_container(data) ==
    \/ isinstance(data, "dict")
    \/ isinstance(data, "list")
    \/ isinstance(data, "str")

contains_key(data, key) ==
    IF isinstance(data, "dict") THEN has_key(data, key)
    ELSE IF isinstance(data, "list")
    THEN \E i \in 1..Len(data.items) :
            isinstance(data.items[i], "str") /\ data.items[i].v = key
    ELSE contains(data.v, key)

\* The entries written one after the other, until one raises.
Written(raised, entries, opened) ==
    [raised |-> raised, entries |-> entries, opened |-> opened]

\* zip_file.write(song_path, song_path.name), when the path exists.
save_song(files, song_path, e2) ==
    IF ~isinstance(song_path, "str") THEN Written("TypeError", e2, {})
    ELSE IF song_path.v \notin DOMAIN files THEN Written("", e2, {})
    ELSE IF ~files[song_path.v].exists THEN Written("", e2, {})
    ELSE Written("", Append(e2, <<path_name(song_path.v),
                                  files[song_path.v].data>>),
                 {song_path.v})

save_meta(files, data, has_meta, has_song, e1) ==
    IF ~isinstance(data, "dict") /\ (has_meta \/ has_song)
    THEN Written("TypeError", e1, {})
    ELSE IF ~has_song
    THEN Written("", IF has_meta
                     THEN e1 \o <<<<LevelMetaEntry,
                                    json_dumps(get_item(data,
                                                        KeyMetadata))>>>>
                     ELSE e1, {})
    ELSE save_song(files, get_item(data, KeySongFilePath),
                   IF has_meta
                   THEN e1 \o <<<<LevelMetaEntry,
                                  json_dumps(get_item(data, KeyMetadata))>>>>
                   ELSE e1)

save_level(files, data, has_level, level_plist) ==
    IF ~isinstance(data, "dict") /\ has_level
    THEN Written("TypeError", <<>>, {})
    ELSE IF has_level /\ level_plist.raised # ""
    THEN Written(level_plist.raised, <<>>, {})
    ELSE save_meta(files, data, contains_key(data, KeyMetadata),
                   contains_key(data, KeySongFilePath),
                   IF has_level
                   THEN <<<<LevelDataEntry, level_plist.value>>>>
                   ELSE <<>>)

save_gmd2_entries(files, data) ==
    IF ~is_container(data) THEN Written("TypeError", <<>>, {})
    ELSE save_level(files, data, contains_key(data, KeyLevelData),
                    plistlib_dumps(get_item(data, KeyLevelData)))

\* zipfile.ZipFile(file_path, 'w', ...) empties the file; leaving the
\* "with" block closes the archive with the entries written so far.
save_gmd2(files, file_path, data) ==
    With(save_gmd2_entries(files, data), LAMBDA done :
        Ended(done.raised, "gmd2", {file_path} \cup done.opened, None,
                [files EXCEPT ![file_path] =
                     File(zip_archive(done.entries))]))

\* -------------------------------------------------------- save_gmd_file
save_gmd_file(files, file_path, data) ==
    With(lower(suffix(file_path)), LAMBDA extension :
        IF extension = ExtGmd THEN save_gmd(files, file_path, data)
        ELSE IF extension = ExtLvl THEN save_lvl(files, file_path, data)
        ELSE IF extension = ExtGmd2 THEN save_gmd2(files, file_path, data)
        ELSE unsupported_format(files))

\* ------------------------------------------------- level files: inputs
\* The paths a caller uses: the three containers, an upper-case extension,
\* a song (an extension this module does not read) and a name that is all
\* extension, which pathlib takes to have none.
PathGmd == Lit(<<"a", ".", "g", "m", "d">>)
PathGmdUpper == Lit(<<"B", ".", "G", "M", "D">>)
PathLvl == Lit(<<"a", ".", "l", "v", "l">>)
PathGmd2 == Lit(<<"a", ".", "g", "m", "d", "2">>)
PathSong == Lit(<<"s", ".", "m", "p", "3">>)
PathHidden == Lit(<<".", "g", "m", "d">>)

Paths == {PathGmd, PathGmdUpper, PathLvl, PathGmd2, PathSong, PathHidden}

SongBytes == <<73, 68, 51>>

\* Documents a caller may hand to save_gmd_file.
LevelDict ==
    PyDict(<< <<Lit(<<"k", "1">>), PyInt(7)>>,
              <<Lit(<<"k", "2">>), PyStr(Lit(<<"a", "<", "b">>))>>,
              <<Lit(<<"k", "3">>), PyBool(TRUE)>>,
              <<Lit(<<"k", "5">>), PyFloat(3)>>,
              <<Lit(<<"k", "9">>), PyDict(<< <<Lit(<<"x">>),
                  PyList(<<PyInt(1), PyInt(0 - 2)>>)>>
                              >>)>> >>)

SmallDict == PyDict(<< <<Lit(<<"k", "1">>), PyInt(1)>> >>)

MetaDict == PyDict(<< <<Lit(<<"n", "a", "m", "e">>), PyStr(Lit(<<"L">>))>>,
    <<Lit(<<"i", "d">>), PyInt(3)>> >>)

Bundle(level_data, metadata) ==
    PyDict(<< <<KeyLevelData, level_data>>, <<KeyMetadata, metadata>>,
              <<KeySongFile, None>> >>)

Docs ==
    { LevelDict,
      SmallDict,
      PyDict(<<>>),
      PyDict(<< <<Lit(<<"k", "2">>), PyFloat(4)>>, <<Lit(<<"k", "1">>),
          PyBool(FALSE)>> >>),
      PyDict(<< <<Lit(<<"a", "&", "b">>), PyInt(1)>> >>),
      PyDict(<< <<Lit(<<"k", "2">>), PyStr(<<97, 13, 98>>)>> >>),
      PyList(<<PyInt(1)>>),
      Bundle(SmallDict, MetaDict),
      Bundle(None, MetaDict),
      Bundle(SmallDict, None),
      PyDict(<< <<KeyLevelData, SmallDict>>,
                <<KeySongFilePath, PyStr(PathSong)>> >>) }

\* What may be found in a file: level files of each container, archives
\* with and without each entry, and bytes that are no level file.
Latin1Plist ==
    Lit(<<"<", "?", "x", "m", "l", " ", "v", "e", "r", "s", "i", "o", "n",
        "=", "\"", "1", ".", "0", "\"", " ", "e", "n", "c", "o", "d", "i",
        "n", "g", "=", "\"", "I", "S", "O", "-", "8", "8", "5", "9", "-",
        "1", "\"", "?", ">", "<", "p", "l", "i", "s", "t", ">", "<", "s",
        "t", "r", "i", "n", "g", ">">>)
    \o <<233>> \o Lit(<<"<", "/", "s", "t", "r", "i", "n", "g", ">", "<",
        "/", "p", "l", "i", "s", "t", ">">>)

Contents ==
    { utf8_encode(gd_xml(LevelDict)).value,
      plistlib_dumps(SmallDict).value,
      Latin1Plist,
      Lit(<<"<", "p", "l", "i", "s", "t", ">", "<", "d", "i", "c", "t", ">",
          "<", "k", ">", "a", "<", "/", "k", ">", "<", "x", "/", ">", "<",
          "/", "d", "i", "c", "t", ">", "<", "/", "p", "l", "i", "s", "t",
          ">">>),
      <<255>>,
      <<>>,
      zlib_compress(plistlib_dumps(LevelDict).value),
      gzip_compress(plistlib_dumps(SmallDict).value, 0),
      zlib_compress(Lit(<<"<", "p", "l", "i", "s", "t", ">">>)),
      zip_archive(<< <<LevelDataEntry, plistlib_dumps(SmallDict).value>>,
                     <<LevelMetaEntry, json_dumps(MetaDict)>> >>),
      zip_archive(<< <<LevelMetaEntry, json_dumps(MetaDict)>>,
                     <<PathSong, SongBytes>> >>),
      zip_archive(<< <<LevelDataEntry, plistlib_dumps(LevelDict).value>> >>),
      zip_archive(<<>>),
      zip_archive(<< <<LevelDataEntry, Lit(<<"<", "p", "l", "i", "s", "t",
          ">">>)>> >>),
      zip_archive(<< <<LevelMetaEntry, Lit(<<"{", "\"", "a", "\"", ":",
          " ">>)>> >>) }


\* ------------------------------------------- DataTreeModel (editor.py)
\* Dicts and lists are objects: a variable or an item holds a reference to
\* one, and two places may hold the same one.  The heap is the sequence of
\* the objects made so far; everything else is held by value.
Ref(id) == [type |-> "ref", id |-> id]

object_at(heap, slot) == IF isinstance(slot,
    "ref") THEN heap[slot.id] ELSE slot

\* The objects of a value just read from a file, put on the heap.
RECURSIVE allocate(_, _)
allocate(heap, value) ==
    IF isinstance(value, "dict") \/ isinstance(value, "list")
    THEN LET id == Len(heap) + 1
             item_value(item) == IF value.type = "dict" THEN item[2] ELSE item
             item_with(item, slot) ==
                 IF value.type = "dict" THEN <<item[1], slot>> ELSE slot
             step(st, item) ==
                 LET made == allocate(st.heap, item_value(item))
                 IN  [heap |-> made.heap,
                      items |-> Append(st.items, item_with(item, made.slot))]
             done == ForEach(step, [heap |-> Append(heap, value),
                                    items |-> <<>>], value.items)
         IN  [heap |-> [done.heap EXCEPT ![id] = [value EXCEPT
                                                    !.items = done.items]],
              slot |-> Ref(id)]
    ELSE [heap |-> heap, slot |-> value]

\* The value a slot stands for, as save_gmd_file walks it.
RECURSIVE value_of(_, _)
value_of(heap, slot) ==
    IF ~isinstance(slot, "ref") THEN slot
    ELSE LET object == heap[slot.id]
         IN  IF object.type = "dict"
             THEN PyDict(list([i \in 1..Len(object.items) |->
                      <<object.items[i][1],
                        value_of(heap, object.items[i][2])>>]))
             ELSE PyList(list([i \in 1..Len(object.items) |->
                      value_of(heap, object.items[i])]))

\* not x
falsy(heap, slot) ==
    IF slot = None THEN TRUE
    ELSE IF slot.type = "ref" THEN heap[slot.id].items = <<>>
    ELSE IF slot.type = "bool" THEN ~slot.v
    ELSE IF slot.type = "int" THEN slot.v = 0
    ELSE IF slot.type = "float" THEN slot.halves = 0
    ELSE slot.v = <<>>

Root == Lit(<<"r", "o", "o", "t">>)

\* part.startswith('[') and part.endswith(']')
is_index(part) == startswith(part, Lit(<<"[">>)) /\ endswith(part,
    Lit(<<"]">>))

\* int(part[1:-1])
index_of(part) == int_of_str(SubSeq(part, 2, Len(part) - 1))

\* Whether a_list[index] is an item, and which one.
in_range(a_list, index) ==
    (0 - Len(a_list.items)) <= index /\ index < Len(a_list.items)

position(a_list, index) ==
    IF index >= 0 THEN index + 1 ELSE Len(a_list.items) + index + 1

\* One round of the loop of get_value_by_path.
get_step(heap, st, part) ==
    LET current == object_at(heap, st.current)
        gone == [returned |-> TRUE, current |-> None]
    IN  IF st.returned \/ part = Root THEN st
        ELSE IF isinstance(current, "dict")
        THEN IF has_key(current, part)
             THEN [st EXCEPT !.current = get_item(current, part)]
             ELSE gone
        ELSE IF isinstance(current, "list")
        THEN IF ~is_index(part) THEN gone
             ELSE IF index_of(part).raised # "" THEN gone
             ELSE IF ~in_range(current, index_of(part).value.v) THEN gone
             ELSE [st EXCEPT !.current =
                       current.items[position(current,
                                              index_of(part).value.v)]]
        ELSE gone

get_value_by_path(heap, data_dict, path) ==
    IF falsy(heap, data_dict) \/ path = <<>> THEN None
    ELSE ForEach(LAMBDA st, part : get_step(heap, st, part),
                 [returned |-> FALSE, current |-> data_dict], path).current

\* One round of the loop of set_value_by_path over path[:-1]; i counts
\* from 0 as enumerate does.
set_step(heap, path, st, i) ==
    LET part == path[i + 1]
        current == object_at(heap, st.current)
        last == i = Len(path) - 2
        no == [st EXCEPT !.at = "returned"]
    IN  IF st.at # "loop" \/ part = Root THEN st
        ELSE IF isinstance(current, "dict")
        THEN IF ~has_key(current, part) THEN no
             ELSE IF last THEN [st EXCEPT !.at = "break"]
             ELSE [st EXCEPT !.current = get_item(current, part)]
        ELSE IF isinstance(current, "list")
        THEN IF ~is_index(part) THEN no
             ELSE IF index_of(part).raised # "" THEN no
             ELSE IF last THEN [st EXCEPT !.at = "break"]
             ELSE IF ~in_range(current, index_of(part).value.v) THEN no
             ELSE [st EXCEPT !.current =
                       current.items[position(current,
                                              index_of(part).value.v)]]
        ELSE st

\* The assignment at the end of set_value_by_path.
set_last(heap, slot, last_key, value) ==
    LET current == object_at(heap, slot)
        index == index_of(last_key)
        at(k) == CHOOSE n \in 1..Len(current.items) : current.items[n][1] = k
        unchanged == [heap |-> heap, returned |-> FALSE]
    IN  IF isinstance(current, "dict") /\ has_key(current, last_key)
        THEN [heap |-> [heap EXCEPT ![slot.id].items[at(last_key)][2] = value],
              returned |-> TRUE]
        ELSE IF isinstance(current, "list") /\ is_index(last_key)
        THEN IF index.raised # "" THEN unchanged
             ELSE IF ~in_range(current, index.value.v) THEN unchanged
             ELSE [heap |-> [heap EXCEPT
                       ![slot.id].items[position(current, index.value.v)]
                           = value],
                   returned |-> TRUE]
        ELSE unchanged

set_value_by_path(heap, data_dict, path, value) ==
    IF falsy(heap, data_dict) \/ path = <<>> \/ Len(path) < 2
    THEN [heap |-> heap, returned |-> FALSE]
    ELSE LET st == ForEach(LAMBDA s, i : set_step(heap, path, s, i),
                           [at |-> "loop", current |-> data_dict],
                           [n \in 1..(Len(path) - 1) |-> n - 1])
         IN  IF st.at = "returned" THEN [heap |-> heap, returned |-> FALSE]
             ELSE set_last(heap, st.current, path[Len(path)], value)

\* type(value).__name__, and what _populate_tree writes for containers.
type_name(heap, slot) ==
    IF slot = None THEN "NoneType" ELSE object_at(heap, slot).type

\* The rows _populate_tree appends for a value and what is in it: the
\* path get_item_path gives for each row, its key text and its type text.
RECURSIVE populate_tree(_, _, _, _)
populate_tree(heap, parent, key, slot) ==
    LET value == object_at(heap, slot)
        here == Append(parent, key)
        child_key(i) ==
            IF value.type = "dict" THEN value.items[i][1]
            ELSE Lit(<<"[">>) \o int_to_str(i - 1) \o Lit(<<"]">>)
        child(i) ==
            IF value.type = "dict" THEN value.items[i][2] ELSE value.items[i]
    IN  {[path |-> here, key |-> key, type |-> type_name(heap, slot)]}
        \cup (IF isinstance(value, "dict") \/ isinstance(value, "list")
              THEN UNION {populate_tree(heap, here, child_key(i), child(i)) :
                             i \in 1..Len(value.items)}
              ELSE {})

\* load_data: the rows of the tree for data and is_gmd2.
tree_rows(heap, data, is_gmd2) ==
    LET object == object_at(heap, data)
        part(key) ==
            IF contains_key(object, key)
            THEN populate_tree(heap, <<>>, key, get_item(object, key))
            ELSE {}
    IN  IF data = None THEN {}
        ELSE IF is_gmd2 THEN part(KeyLevelData) \cup part(KeyMetadata)
        ELSE populate_tree(heap, <<>>, Root, data)

\* The conversion of the text of the value editor in _on_value_changed.
TrueWords == {Lit(<<"t", "r", "u", "e">>), Lit(<<"1">>), Lit(<<"y", "e",
    "s">>)}

convert(value_type, new_value_str) ==
    IF value_type = "int" THEN int_of_str(new_value_str)
    ELSE IF value_type = "float" THEN float_of_str(new_value_str)
    ELSE IF value_type = "bool"
    THEN [raised |-> "", value |-> PyBool(lower(new_value_str) \in TrueWords)]
    ELSE [raised |-> "", value |-> PyStr(new_value_str)]

\* EditValueCommand
EditValueCommand(path, old_value, new_value) ==
    [path |-> path, old_value |-> old_value, new_value |-> new_value]


\* --------------------------------------------------- the editor: inputs
\* Level files the editor may open: a document with a Dict in a Dict whose
\* key is also a key of the root, a flat document with a List, and a
\* bundle without level.data, and a document whose nested leaf has the
\* key of an entry of the root.  No document has a k4 field, so the k4
\* editor stays hidden, and none has a key 'root'.
NestedDict ==
    PyDict(<< <<Lit(<<"a">>), PyDict(<< <<Lit(<<"b">>),
        PyDict(<< <<Lit(<<"x">>), PyInt(1)>> >>)>>
                              >>)>>,
              <<Lit(<<"b">>), PyDict(<< <<Lit(<<"p">>), PyInt(2)>> >>)>> >>)

FlatDict ==
    PyDict(<< <<Lit(<<"k", "1">>), PyInt(7)>>,
              <<Lit(<<"k", "9">>), PyList(<<PyBool(TRUE),
                  PyStr(Lit(<<"t">>))>>)>> >>)

ShadowDict ==
    PyDict(<< <<Lit(<<"a">>), PyDict(<< <<Lit(<<"k">>), PyInt(1)>> >>)>>,
              <<Lit(<<"k">>), PyInt(2)>> >>)

EditorFiles ==
    { [p \in Paths |->
          IF p = PathGmd THEN File(utf8_encode(gd_xml(d)).value)
          ELSE IF p = PathGmd2
          THEN File(zip_archive(<< <<LevelMetaEntry, json_dumps(MetaDict)>>
                                >>))
          ELSE IF p = PathLvl THEN File(<<255>>)
          ELSE Absent] : d \in {NestedDict, FlatDict, ShadowDict} }

\* What the file dialog may return.
EditorPaths == {PathGmd, PathGmd2, PathLvl, PathSong}

\* What the user may type into the value editor.
Texts == {Lit(<<"5">>), Lit(<<"x">>)}

\* Documents and paths for calls of get_value_by_path and
\* set_value_by_path: keys that are there and keys that are not, indices
\* in and out of range and malformed, and paths through a scalar; a
\* document with a key 'root' and the empty document.
RootKeyDict == PyDict(<< <<Root, PyInt(5)>> >>)

PathDocs ==
    { [data |-> NestedDict, is_gmd2 |-> FALSE],
      [data |-> FlatDict, is_gmd2 |-> FALSE],
      [data |-> PyDict(<< <<Lit(<<"a">>), PyInt(1)>>, <<Lit(<<"b">>),
          PyInt(2)>> >>),
       is_gmd2 |-> FALSE],
      [data |-> RootKeyDict, is_gmd2 |-> FALSE],
      [data |-> PyDict(<<>>), is_gmd2 |-> FALSE],
      [data |-> Bundle(None, MetaDict), is_gmd2 |-> TRUE],
      [data |-> Bundle(SmallDict, MetaDict), is_gmd2 |-> TRUE] }

PathInputs ==
    { <<>>,
      <<Root>>,
      <<Root, Root>>,
      <<Root, Lit(<<"a">>)>>,
      <<Root, Lit(<<"z", "z">>)>>,
      <<Root, Lit(<<"a">>), Lit(<<"b">>)>>,
      <<Root, Lit(<<"a">>), Lit(<<"b">>), Lit(<<"x">>)>>,
      <<Root, Lit(<<"a">>), Lit(<<"z", "z">>)>>,
      <<Root, Lit(<<"b">>), Lit(<<"p">>)>>,
      <<Root, Lit(<<"k", "1">>)>>,
      <<Root, Lit(<<"k", "1">>), Lit(<<"k", "9">>)>>,
      <<Root, Lit(<<"k", "9">>), Lit(<<"[", "1", "]">>)>>,
      <<Root, Lit(<<"k", "9">>), Lit(<<"[", "5", "]">>)>>,
      <<Root, Lit(<<"k", "9">>), Lit(<<"[", "x", "]">>)>>,
      <<Root, Lit(<<"k", "9">>), Lit(<<"k", "1">>)>>,
      <<KeyLevelData>>,
      <<KeyLevelData, Lit(<<"k", "1">>)>>,
      <<KeyMetadata, Lit(<<"n", "a", "m", "e">>)>>,
      <<KeyMetadata, Lit(<<"z", "z">>)>> }

NewValues == {PyInt(9)}


\* ------------------------------------------------------------------ state
VARIABLES
    pc,                 \* "ready" before the call, "done" after it
    image_path,         \* the image behind the path given to process_image
    start_id,           \* the start_id given to process_image
    output_file,        \* the file at output_path
    extract_result,     \* the dict extract_colors_from_image returned
    result,             \* the dict process_image returned
    raised,             \* the exception that escaped it, "" if none
    colors_list,        \* locals of process_image and generate_block_data
    color_to_id,
    color_data,
    blocks,
    color_to_sequence,
    block_data,
    current_image_path, \* ColorExtractorGUI: the image chosen, or None
    gui_color_count,    \* self.color_count
    start_id_spinbox,   \* the value of the spin box
    id_range_edit,      \* the predicted-range field
    message_box,        \* the message box the last handler showed, or None
    status_bar,         \* the status bar text
    level_string,       \* the str a caller gives to encode_k4
    k4_string,          \* the text of a k4 field, given to decode_k4
    clock,              \* the time of day
    k4_result,          \* what the last codec call returned or raised
    files,              \* the file system: what is at each path
    file_path,          \* the path a caller gives to read_ and save_gmd_file
    document,           \* the data the caller holds, if it holds any
    calls,              \* the calls made so far and how each ended
    heap,               \* the dicts and lists the editor's data is made of
    data_dict,          \* DataTreeModel.data_dict, None or a reference
    is_gmd2,            \* DataTreeModel.is_gmd2
    current_file,       \* GMDMainWindow.current_file
    current_path,       \* PropertyEditorWidget.current_path
    current_key,        \* PropertyEditorWidget.current_key
    current_type,       \* PropertyEditorWidget.current_type
    undo_stack,         \* the commands of the QUndoStack
    undo_index,         \* how many of them are done
    editor_box,         \* the message box the last handler showed
    loaded_data,        \* the document as read_gmd_file returned it
    saved_data,         \* the document as given to save_gmd_file
    path_call           \* the last get_/set_value_by_path call by itself

lib_vars == <<image_path, start_id, output_file, extract_result, result,
              raised, colors_list, color_to_id, color_data, blocks,
              color_to_sequence, block_data>>

gui_vars == <<current_image_path, gui_color_count, start_id_spinbox,
              id_range_edit, message_box, status_bar>>

codec_vars == <<level_string, k4_string, clock, k4_result>>

file_vars == <<files, file_path, document, calls>>

model_vars == <<heap, data_dict, is_gmd2>>

editor_vars == <<model_vars, current_file, current_path, current_key,
                 current_type, undo_stack, undo_index, editor_box,
                 loaded_data, saved_data, path_call>>

gmd_vars == <<codec_vars, file_vars, editor_vars>>

vars == <<pc, lib_vars, gui_vars, gmd_vars>>

NoCallYet ==
    /\ extract_result = None
    /\ result = None
    /\ raised = ""
    /\ colors_list = <<>>
    /\ color_to_id = <<>>
    /\ color_data = <<>>
    /\ blocks = <<>>
    /\ color_to_sequence = <<>>
    /\ block_data = <<>>

\* ColorExtractorGUI.__init__ and _create_widgets.
GuiCreated ==
    /\ current_image_path = None
    /\ gui_color_count = 0
    /\ start_id_spinbox = SpinBoxMax
    /\ id_range_edit = [text |-> <<"">>, style |-> ""]
    /\ message_box = None
    /\ status_bar = "ready"

\* No level file is open and no k4 field is being edited.
CodecIdle ==
    /\ level_string = <<>>
    /\ k4_string = <<>>
    /\ clock = 0
    /\ k4_result = None

\* No caller of read_gmd_file or save_gmd_file: no path, no document.
NoDocument == [held |-> FALSE, value |-> None]

FilesIdle ==
    /\ files = [p \in Paths |-> Absent]
    /\ file_path = <<>>
    /\ document = NoDocument
    /\ calls = <<>>

\* GMDMainWindow.__init__: no file, an empty model.
EditorCreated ==
    /\ heap = <<>>
    /\ data_dict = None
    /\ is_gmd2 = FALSE
    /\ current_file = None
    /\ current_path = <<>>
    /\ current_key = <<>>
    /\ current_type = ""
    /\ undo_stack = <<>>
    /\ undo_index = 0
    /\ editor_box = ""
    /\ loaded_data = None
    /\ saved_data = None
    /\ path_call = None

GmdIdle == CodecIdle /\ FilesIdle /\ EditorCreated

\* A caller of the library holds an image path and a start_id.
Init ==
    /\ pc = "ready"
    /\ image_path \in Images
    /\ start_id \in StartIds
    /\ output_file \in InitialFiles
    /\ NoCallYet
    /\ GuiCreated
    /\ GmdIdle

\* The effect of one call of process_image on the state.
Call(img, sid) ==
    \E out \in {process_image(img, sid, output_file)} :
        /\ extract_result' = out.extract_result
        /\ result' = out.result
        /\ raised' = out.raised
        /\ output_file' = out.output_file
        /\ colors_list' = out.colors_list
        /\ color_to_id' = out.color_to_id
        /\ color_data' = out.color_data
        /\ blocks' = out.blocks
        /\ color_to_sequence' = out.color_to_sequence
        /\ block_data' = out.block_data

ProcessImage ==
    /\ pc = "ready"
    /\ pc' = "done"
    /\ Call(image_path, start_id)
    /\ UNCHANGED <<image_path, start_id>>
    /\ UNCHANGED gui_vars
    /\ UNCHANGED gmd_vars

Next == ProcessImage

Spec == Init /\ [][Next]_vars

\* ------------------------------------------------ the GUI as the caller
InitGUI ==
    /\ pc = "gui"
    /\ image_path = None
    /\ start_id = SpinBoxMax
    /\ output_file = NoFile
    /\ NoCallYet
    /\ GuiCreated
    /\ GmdIdle

\* select_image with the file img chosen in the dialog.
select_image(img) ==
    /\ pc = "gui"
    /\ current_image_path' = img
    /\ IF ~img.readable
       THEN /\ message_box' = [title |-> "cannot_load_image"]
            /\ status_bar' = "load_failed"
            /\ UNCHANGED <<gui_color_count, id_range_edit>>
       ELSE \E res \in {extract_colors_from_image(img)} :
            IF res.success
            THEN /\ gui_color_count' = res.color_count
                 /\ id_range_edit' = update_id_range(id_range_edit,
                        res.color_count, start_id_spinbox)
                 /\ message_box' = None
                 /\ status_bar' = "loaded"
            ELSE IF "color_count" \in DOMAIN res
            THEN /\ gui_color_count' = res.color_count
                 /\ id_range_edit' = update_id_range(id_range_edit,
                        res.color_count, start_id_spinbox)
                 /\ message_box' = [title |-> "warning_too_many_colors",
                                    color_count |-> res.color_count]
                 /\ status_bar' = "too_many_colors"
            ELSE /\ message_box' = [title |-> "cannot_analyse_image"]
                 /\ status_bar' = "analyse_failed"
                 /\ UNCHANGED <<gui_color_count, id_range_edit>>
    /\ UNCHANGED <<pc, start_id_spinbox>>
    /\ UNCHANGED lib_vars
    /\ UNCHANGED gmd_vars

\* The user sets the spin box to v; valueChanged runs _update_id_range.
valueChanged(v) ==
    /\ pc = "gui"
    /\ v \in SpinBoxMin..SpinBoxMax
    /\ v # start_id_spinbox
    /\ start_id_spinbox' = v
    /\ id_range_edit' = update_id_range(id_range_edit, gui_color_count, v)
    /\ UNCHANGED <<pc, current_image_path, gui_color_count, message_box,
                   status_bar>>
    /\ UNCHANGED lib_vars
    /\ UNCHANGED gmd_vars

\* extract_colors: the "extract" button.
extract_colors ==
    /\ pc = "gui"
    /\ IF current_image_path = None
       THEN /\ message_box' = [title |-> "select_an_image_first"]
            /\ UNCHANGED status_bar
            /\ UNCHANGED lib_vars
       ELSE /\ image_path' = current_image_path
            /\ start_id' = start_id_spinbox
            /\ Call(current_image_path, start_id_spinbox)
            /\ IF raised' # ""
               THEN /\ message_box' = [title |-> "exception",
                                       error |-> raised']
                    /\ status_bar' = "extract_failed"
               ELSE /\ message_box' = report(result', start_id_spinbox).box
                    /\ status_bar' = report(result', start_id_spinbox).status
    /\ UNCHANGED <<pc, current_image_path, gui_color_count, start_id_spinbox,
                   id_range_edit>>
    /\ UNCHANGED gmd_vars

NextGUI ==
    \/ \E img \in GuiImages : select_image(img)
    \/ \E v \in GuiStartIds : valueChanged(v)
    \/ extract_colors

SpecGUI == InitGUI /\ [][NextGUI]_vars

\* --------------------------------------------- a caller of the k4 codec
\* The image compiler is not running.
CompilerIdle ==
    /\ image_path = None
    /\ start_id = SpinBoxMax
    /\ output_file = NoFile
    /\ NoCallYet
    /\ GuiCreated

\* The caller holds either a string to encode or a k4 text to decode.
InitCodec ==
    /\ pc = "codec"
    /\ \/ level_string \in LevelStrings /\ k4_string = <<>>
       \/ level_string = <<>> /\ k4_string \in K4Strings
    /\ clock \in Clocks
    /\ k4_result = None
    /\ CompilerIdle
    /\ FilesIdle
    /\ EditorCreated

\* encode_k4(level_string); the text returned becomes the k4 field.
EncodeK4 ==
    /\ pc = "codec"
    /\ \E out \in {encode_k4(level_string, clock)} :
        /\ k4_result' = out
        /\ IF out.raised = ""
           THEN pc' = "encoded" /\ k4_string' = out.value
           ELSE pc' = "encode_failed" /\ UNCHANGED k4_string
    /\ UNCHANGED <<level_string, clock>>
    /\ UNCHANGED <<lib_vars, gui_vars, file_vars, editor_vars>>

\* decode_k4(k4_string), of the field as found or as just encoded.
DecodeK4 ==
    /\ pc \in {"codec", "encoded"}
    /\ pc' = IF pc = "encoded" THEN "roundtrip" ELSE "decoded"
    /\ k4_result' = decode_k4(k4_string)
    /\ UNCHANGED <<level_string, k4_string, clock>>
    /\ UNCHANGED <<lib_vars, gui_vars, file_vars, editor_vars>>

NextCodec == EncodeK4 \/ DecodeK4

SpecCodec == InitCodec /\ [][NextCodec]_vars

\* ------------------------------------------- a caller of the level files
MaxCalls == 3

Holding(value) == [held |-> TRUE, value |-> value]

\* The record of one call: what was called, the file at the path before
\* and after it, the data given to it or returned by it, and how it ended.
CallRecord(op, data, out) ==
    [op |-> op, before |-> files[file_path], file |-> out.files[file_path],
     data |-> data, raised |-> out.raised, message |-> out.message,
     cause |-> out.cause, context |-> out.context, variant |-> out.variant,
     opened |-> out.opened,
     others |-> \A p \in Paths \ {file_path} : out.files[p] = files[p]]

\* The caller holds a path and either a document to save there, with
\* nothing at the path yet, or nothing, with a file at the path.  The song
\* is on disk.
InitFiles ==
    /\ pc = "files"
    /\ file_path \in Paths
    /\ \/ /\ document \in {Holding(d) : d \in Docs}
          /\ files = [p \in Paths |->
                         IF p = PathSong THEN File(SongBytes) ELSE Absent]
       \/ /\ document = NoDocument
          /\ \E data \in Contents :
                 files = [p \in Paths |->
                             IF p = PathSong THEN File(SongBytes)
                             ELSE IF p = file_path THEN File(data)
                             ELSE Absent]
    /\ calls = <<>>
    /\ CompilerIdle
    /\ CodecIdle
    /\ EditorCreated

\* data = read_gmd_file(file_path)
ReadFile ==
    /\ pc = "files"
    /\ Len(calls) < MaxCalls
    /\ \E out \in {read_gmd_file(files, file_path)} :
        /\ files' = out.files
        /\ document' = IF out.raised = "" THEN Holding(out.value)
                       ELSE document
        /\ calls' = Append(calls, CallRecord("read", out.value, out))
    /\ UNCHANGED <<pc, file_path>>
    /\ UNCHANGED <<lib_vars, gui_vars, codec_vars, editor_vars>>

\* save_gmd_file(file_path, data) with the document the caller holds.
SaveFile ==
    /\ pc = "files"
    /\ Len(calls) < MaxCalls
    /\ document.held
    /\ \E out \in {save_gmd_file(files, file_path, document.value)} :
        /\ files' = out.files
        /\ calls' = Append(calls, CallRecord("save", document.value, out))
    /\ UNCHANGED <<pc, file_path, document>>
    /\ UNCHANGED <<lib_vars, gui_vars, codec_vars, editor_vars>>

NextFiles == ReadFile \/ SaveFile

SpecFiles == InitFiles /\ [][NextFiles]_vars

\* --------------------------------------------------- the level editor
MaxEdits == 1

\* The editor has just been started; the level files are on disk.
InitEditor ==
    /\ pc = "editor"
    /\ files \in EditorFiles
    /\ file_path = <<>>
    /\ document = NoDocument
    /\ calls = <<>>
    /\ EditorCreated
    /\ CompilerIdle
    /\ CodecIdle

idle_vars == <<lib_vars, gui_vars, codec_vars, file_path, document, calls,
               path_call>>

selection_vars == <<current_path, current_key, current_type>>

\* _open_file, with p the path the file dialog returned.
open_file_keeping_stack(p) ==
    /\ pc = "editor"
    /\ \E out \in {read_gmd_file(files, p)} :
        IF out.raised # ""
        THEN /\ editor_box' = "cannot_load_file"
             /\ UNCHANGED <<model_vars, current_file, undo_stack, undo_index,
                            loaded_data>>
        ELSE \E made \in {allocate(<<>>, out.value)} :
             /\ heap' = made.heap
             /\ data_dict' = made.slot
             /\ is_gmd2' = endswith(p, ExtGmd2)
             /\ current_file' = PyStr(p)
             /\ UNCHANGED <<undo_stack, undo_index>>
             /\ loaded_data' = out.value
             /\ editor_box' = "file_loaded"
    /\ UNCHANGED <<pc, files, selection_vars, saved_data>>
    /\ UNCHANGED idle_vars

open_file(p) ==
    /\ pc = "editor"
    /\ \E out \in {read_gmd_file(files, p)} :
        IF out.raised # ""
        THEN /\ editor_box' = "cannot_load_file"
             /\ UNCHANGED <<model_vars, current_file, undo_stack, undo_index,
                            loaded_data>>
        ELSE \E made \in {allocate(<<>>, out.value)} :
             /\ heap' = made.heap
             /\ data_dict' = made.slot
             /\ is_gmd2' = endswith(p, ExtGmd2)
             /\ current_file' = PyStr(p)
             /\ undo_stack' = <<>>
             /\ undo_index' = 0
             /\ loaded_data' = out.value
             /\ editor_box' = "file_loaded"
    /\ UNCHANGED <<pc, files, selection_vars, saved_data>>
    /\ UNCHANGED idle_vars

\* _on_tree_selection_changed for a row of the tree.
on_tree_selection_changed(row) ==
    /\ pc = "editor"
    /\ row \in tree_rows(heap, data_dict, is_gmd2)
    /\ current_path' = row.path
    /\ current_key' = row.key
    /\ current_type' = row.type
    /\ UNCHANGED <<pc, files, model_vars, current_file, undo_stack,
                   undo_index, editor_box, loaded_data, saved_data>>
    /\ UNCHANGED idle_vars

\* _apply_changes with new_value_str in the value editor, then
\* _on_value_changed and QUndoStack.push, which runs the command's redo.
apply_changes(new_value_str) ==
    /\ pc = "editor"
    /\ undo_index < MaxEdits
    /\ IF current_path = <<>>
       THEN /\ editor_box' = "select_an_item_first"
            /\ UNCHANGED <<heap, undo_stack, undo_index>>
       ELSE \E new_value \in {convert(current_type, new_value_str)} :
            IF new_value.raised # ""
            THEN /\ editor_box' = "cannot_convert_value"
                 /\ UNCHANGED <<heap, undo_stack, undo_index>>
            ELSE \E old_value \in
                     {get_value_by_path(heap, data_dict, current_path)} :
                 /\ undo_stack' =
                        Append(SubSeq(undo_stack, 1, undo_index),
                               EditValueCommand(current_path, old_value,
                                                new_value.value))
                 /\ undo_index' = undo_index + 1
                 /\ heap' = set_value_by_path(heap, data_dict, current_path,
                                              new_value.value).heap
                 /\ UNCHANGED editor_box
    /\ UNCHANGED <<pc, files, data_dict, is_gmd2, current_file,
                   selection_vars, loaded_data, saved_data>>
    /\ UNCHANGED idle_vars

\* QUndoStack.undo: EditValueCommand.undo of the last command done.
undo ==
    /\ pc = "editor"
    /\ undo_index > 0
    /\ heap' = set_value_by_path(heap, data_dict,
                                 undo_stack[undo_index].path,
                                 undo_stack[undo_index].old_value).heap
    /\ undo_index' = undo_index - 1
    /\ UNCHANGED <<pc, files, data_dict, is_gmd2, current_file,
                   selection_vars, undo_stack, editor_box, loaded_data,
                   saved_data>>
    /\ UNCHANGED idle_vars

\* QUndoStack.redo: EditValueCommand.redo of the first command undone.
redo ==
    /\ pc = "editor"
    /\ undo_index < Len(undo_stack)
    /\ heap' = set_value_by_path(heap, data_dict,
                                 undo_stack[undo_index + 1].path,
                                 undo_stack[undo_index + 1].new_value).heap
    /\ undo_index' = undo_index + 1
    /\ UNCHANGED <<pc, files, data_dict, is_gmd2, current_file,
                   selection_vars, undo_stack, editor_box, loaded_data,
                   saved_data>>
    /\ UNCHANGED idle_vars

\* _save_file; without a current file it is _save_as_file, which has
\* nothing to save then.  The session ends once the file is written.
save_file ==
    /\ pc = "editor"
    /\ IF falsy(heap, data_dict)
       THEN /\ editor_box' = "no_data_to_save"
            /\ UNCHANGED <<pc, files, saved_data>>
       ELSE \E out \in {save_gmd_file(files, current_file.v,
                                       value_of(heap, data_dict))} :
            /\ pc' = "saved"
            /\ files' = out.files
            /\ saved_data' = value_of(heap, data_dict)
            /\ editor_box' = IF out.raised = "" THEN "file_saved"
                             ELSE "cannot_save_file"
    /\ UNCHANGED <<model_vars, current_file, selection_vars, undo_stack,
                   undo_index, loaded_data>>
    /\ UNCHANGED idle_vars

NextEditor ==
    \/ \E p \in EditorPaths : open_file(p)
    \/ \E row \in tree_rows(heap, data_dict, is_gmd2) :
           on_tree_selection_changed(row)
    \/ \E new_value_str \in Texts : apply_changes(new_value_str)
    \/ undo
    \/ redo
    \/ save_file

SpecEditor == InitEditor /\ [][NextEditor]_vars

\* ------------------------------- get_ and set_value_by_path by themselves
\* A document has been loaded into the model.
InitPaths ==
    /\ pc = "paths"
    /\ \E doc \in PathDocs :
        \E made \in {allocate(<<>>, doc.data)} :
            /\ heap = made.heap
            /\ data_dict = made.slot
            /\ is_gmd2 = doc.is_gmd2
            /\ loaded_data = doc.data
    /\ current_file = None
    /\ current_path = <<>>
    /\ current_key = <<>>
    /\ current_type = ""
    /\ undo_stack = <<>>
    /\ undo_index = 0
    /\ editor_box = ""
    /\ saved_data = None
    /\ path_call = None
    /\ FilesIdle
    /\ CompilerIdle
    /\ CodecIdle

PathCall(op, path, value, found, returned) ==
    [op |-> op, path |-> path, value |-> value, found |-> found,
     returned |-> returned, raised |-> ""]

\* get_value_by_path(path)
GetValueByPath(path) ==
    /\ pc = "paths"
    /\ pc' = "called"
    /\ path_call' = PathCall("get", path, None,
                             value_of(heap,
                                      get_value_by_path(heap, data_dict,
                                                        path)), FALSE)
    /\ UNCHANGED <<files, file_path, document, calls, model_vars,
                   current_file, selection_vars, undo_stack, undo_index,
                   editor_box, loaded_data, saved_data>>
    /\ UNCHANGED <<lib_vars, gui_vars, codec_vars>>

\* set_value_by_path(path, value)
SetValueByPath(path, value) ==
    /\ pc = "paths"
    /\ pc' = "called"
    /\ \E out \in {set_value_by_path(heap, data_dict, path, value)} :
        /\ heap' = out.heap
        /\ path_call' = PathCall("set", path, value, None, out.returned)
    /\ UNCHANGED <<files, file_path, document, calls, data_dict, is_gmd2,
                   current_file, selection_vars, undo_stack, undo_index,
                   editor_box, loaded_data, saved_data>>
    /\ UNCHANGED <<lib_vars, gui_vars, codec_vars>>

NextPaths ==
    \/ \E path \in PathInputs : GetValueByPath(path)
    \/ \E path \in PathInputs, value \in NewValues :
           SetValueByPath(path, value)

SpecPaths == InitPaths /\ [][NextPaths]_vars

\* ================================================================ claims
\* What the claims say about an image, stated on the pixels themselves.
PixelIndexes(img) == 1..Len(img.pixels)

FullyOpaque(img, k) == img.pixels[k][4] = 255

OpaqueColors(img) ==
    { <<img.pixels[k][1], img.pixels[k][2], img.pixels[k][3]>> :
        k \in { j \in PixelIndexes(img) : FullyOpaque(img, j) } }

PaletteSize(img) == Cardinality(OpaqueColors(img))

ColorBefore(c, d) ==
    \/ c[1] < d[1]
    \/ c[1] = d[1] /\ c[2] < d[2]
    \/ c[1] = d[1] /\ c[2] = d[2] /\ c[3] < d[3]

Done == pc = "done"

Returned == Done /\ raised = ""

Succeeded == Returned /\ result.success

\* The number a formatted coordinate stands for, in half units.
HalfUnits(str) == 2 * str.whole + (IF str.decimals = "500000" THEN 1 ELSE 0)

\* C1: for a palette of n distinct colors in ascending order and a start_id
\* with n < start_id <= 999, generate_color_id_mapping is a bijection from
\* the palette onto start_id-n+1 .. start_id, and the i-th color gets
\* start_id-n+i.
C1_IdMappingBijection ==
    Succeeded =>
        LET n == Len(colors_list)
        IN  /\ DOMAIN color_to_id = { colors_list[i] : i \in 1..n }
            /\ Cardinality(DOMAIN color_to_id) = n
            /\ \A i \in 1..n : color_to_id[colors_list[i]] = start_id - n + i
            /\ { color_to_id[c] : c \in DOMAIN color_to_id }
                   = (start_id - n + 1)..start_id
            /\ \A c, d \in DOMAIN color_to_id :
                   color_to_id[c] = color_to_id[d] => c = d

C1_Witness ==
    /\ Succeeded
    /\ Len(colors_list) = 512
    /\ start_id = 999
    /\ color_to_id[colors_list[1]] = 488
    /\ color_to_id[colors_list[512]] = 999

\* C2: for an image whose palette has n <= 512 colors, process_image
\* succeeds exactly when n < start_id <= 999; with start_id = n it returns
\* the ID-range failure, with start_id = n + 1 it succeeds, and it fails for
\* every start_id < 1.
C2_SuccessIffStartIdInRange ==
    (Done /\ image_path.readable /\ PaletteSize(image_path) <= 512) =>
        LET n == PaletteSize(image_path)
        IN  /\ raised = ""
            /\ result.success <=> (n < start_id /\ start_id <= 999)
            /\ start_id = n =>
                   /\ ~result.success
                   /\ result.error = <<"start_id_not_above_color_count",
                                       start_id, n>>
            /\ start_id = n + 1 => result.success
            /\ start_id < 1 => ~result.success

C2_Witness ==
    /\ Succeeded
    /\ PaletteSize(image_path) = 512
    /\ start_id = 513

\* C3: every ID-range failure of process_image (start_id <= palette size,
\* start_id < 1 or start_id > 999) carries the palette size as color_count.
C3_IdRangeFailureCarriesCount ==
    (/\ Returned
     /\ image_path.readable
     /\ PaletteSize(image_path) <= 512
     /\ ~result.success) =>
        /\ "color_count" \in DOMAIN result
        /\ result.color_count = PaletteSize(image_path)

\* C4: extract_colors_from_image fails exactly when the number of distinct
\* (r,g,b) among the pixels of alpha 255 exceeds 512, and the failure
\* carries that number as color_count (513 colors fail reporting 513, 512
\* succeed).
C4_OverflowIffMoreThan512 ==
    (Done /\ image_path.readable) =>
        LET n == PaletteSize(image_path)
        IN  /\ ~extract_result.success <=> n > 512
            /\ n > 512 =>
                   /\ "color_count" \in DOMAIN extract_result
                   /\ extract_result.color_count = n
            /\ n = 513 => extract_result.color_count = 513
            /\ n = 512 => extract_result.success

C4_Witness ==
    /\ Done
    /\ PaletteSize(image_path) = 513
    /\ ~extract_result.success
    /\ extract_result.color_count = 513

\* C5: on success the palette of extract_colors_from_image is strictly
\* ascending in (r,g,b) order, without duplicates, and holds exactly the
\* (r,g,b) of the pixels of alpha 255; transparent_count is the number of
\* pixels whose alpha is not 255, and none of them contributes a color.
C5_PaletteSortedExact ==
    (Done /\ image_path.readable /\ extract_result.success) =>
        LET colors == extract_result.colors
            n == Len(colors)
        IN  /\ \A i \in 1..(n - 1) : ColorBefore(colors[i], colors[i + 1])
            /\ \A i, j \in 1..n : colors[i] = colors[j] => i = j
            /\ { colors[i] : i \in 1..n } = OpaqueColors(image_path)
            /\ extract_result.color_count = n
            /\ extract_result.transparent_count =
                   Cardinality({ k \in PixelIndexes(image_path) :
                                   image_path.pixels[k][4] # 255 })

C5_Witness ==
    /\ Done
    /\ extract_result.success
    /\ extract_result.transparent_count = 1
    /\ extract_result.colors = <<Black, White>>
    /\ \E k \in PixelIndexes(image_path) :
           image_path.pixels[k] = <<10, 20, 30, 128>>

\* The pixel a record line stands for: its column, row, index and color.
LineCol(line) == HalfUnits(line.x_pos_str) \div 15

LineRow(img, line) == img.height - 1 - HalfUnits(line.y_pos_str) \div 15

LineColor(img, line) ==
    LET k == LineRow(img, line) * img.width + LineCol(line) + 1
    IN  <<img.pixels[k][1], img.pixels[k][2], img.pixels[k][3]>>

\* C6: generate_block_data emits exactly one record per pixel of alpha 255
\* and none for another pixel; the record of pixel (col,row) in an image of
\* height H has worldX = 7.5*col, worldY = 7.5*(H-1-row) and the color ID of
\* the pixel's color; on success block_count + transparent_count is
\* width*height.
C6_OneRecordPerOpaquePixel ==
    Succeeded =>
        LET img == image_path
            opaque == { k \in PixelIndexes(img) : FullyOpaque(img, k) }
            m == Len(block_data)
        IN  /\ m = Cardinality(opaque)
            /\ result.block_count = m
            /\ \A k \in opaque :
                   LET col == (k - 1) % img.width
                       row == (k - 1) \div img.width
                       at == { i \in 1..m :
                                 /\ HalfUnits(block_data[i].x_pos_str)
                                        = 15 * col
                                 /\ HalfUnits(block_data[i].y_pos_str)
                                        = 15 * (img.height - 1 - row) }
                   IN  /\ Cardinality(at) = 1
                       /\ \A i \in at :
                              block_data[i].color_id =
                                  color_to_id[<<img.pixels[k][1],
                                                img.pixels[k][2],
                                                img.pixels[k][3]>>]
            /\ \A i \in 1..m :
                   /\ blocks[i].x_pos = 15 * blocks[i].col
                   /\ blocks[i].y_pos = 15 * (img.height - 1 - blocks[i].row)
            /\ result.block_count + result.transparent_count
                   = img.width * img.height

C6_Witness ==
    /\ Succeeded
    /\ image_path.width = 2 /\ image_path.height = 2
    /\ image_path.pixels[2] = <<255, 255, 255, 255>>
    /\ image_path.pixels[3] = <<10, 20, 30, 128>>
    /\ Len(block_data) = 3
    /\ result.transparent_count = 1
    /\ \E i \in 1..3 :
           /\ block_data[i].x_pos_str = [whole |-> 7, decimals |-> "500000"]
           /\ block_data[i].y_pos_str = [whole |-> 7, decimals |-> "500000"]
           /\ block_data[i].color_id = color_to_id[White]

\* C7: the records are in descending worldY and, for equal worldY, ascending
\* worldX; no two records share (worldX, worldY); the emitted lines and the
\* sequence assignment follow this same order.
C7_RecordOrder ==
    Succeeded =>
        LET m == Len(block_data)
            X(i) == HalfUnits(block_data[i].x_pos_str)
            Y(i) == HalfUnits(block_data[i].y_pos_str)
        IN  /\ \A i \in 1..(m - 1) :
                   \/ Y(i) > Y(i + 1)
                   \/ Y(i) = Y(i + 1) /\ X(i) < X(i + 1)
            /\ \A i, j \in 1..m : (X(i) = X(j) /\ Y(i) = Y(j)) => i = j
            /\ Len(blocks) = m
            /\ \A i \in 1..m :
                   /\ X(i) = blocks[i].x_pos
                   /\ Y(i) = blocks[i].y_pos
                   /\ block_data[i].color_sequence
                          = color_to_sequence[blocks[i].color]

C7_Witness ==
    /\ Succeeded
    /\ image_path.width = 2 /\ image_path.height = 2
    /\ Len(block_data) = 4
    /\ <<HalfUnits(block_data[1].x_pos_str), HalfUnits(block_data[1].y_pos_str)>>
           = <<0, 15>>
    /\ <<HalfUnits(block_data[2].x_pos_str), HalfUnits(block_data[2].y_pos_str)>>
           = <<15, 15>>
    /\ <<HalfUnits(block_data[3].x_pos_str), HalfUnits(block_data[3].y_pos_str)>>
           = <<0, 0>>
    /\ <<HalfUnits(block_data[4].x_pos_str), HalfUnits(block_data[4].y_pos_str)>>
           = <<15, 0>>

\* C8: walking the records in final order, the first record of each color
\* gets the next unused positive integer (from 1) as sequence number and
\* later records of the color reuse it: same color, same number; different
\* colors, different numbers; the numbers used are 1..k for k opaque colors;
\* the numbering follows first encounter, not palette order or color ID (the
\* 2x2 example gives black 1, white 2, (10,20,30) 3).
C8_SequenceByFirstEncounter ==
    Succeeded =>
        LET img == image_path
            m == Len(block_data)
            color(i) == LineColor(img, block_data[i])
            seq(i) == block_data[i].color_sequence
        IN  /\ \A i \in 1..m :
                   LET earlier == { color(j) : j \in 1..(i - 1) }
                   IN  IF color(i) \notin earlier
                       THEN seq(i) = Cardinality(earlier) + 1
                       ELSE \E j \in 1..(i - 1) :
                                color(j) = color(i) /\ seq(j) = seq(i)
            /\ \A i, j \in 1..m : (color(i) = color(j)) <=> (seq(i) = seq(j))
            /\ { seq(i) : i \in 1..m } = 1..PaletteSize(img)
            /\ (img = ExampleImage) =>
                   color_to_sequence = (Black :> 1 @@ White :> 2 @@ Grey :> 3)

C8_Witness ==
    /\ Succeeded
    /\ image_path = ExampleImage
    /\ start_id = 999
    /\ [i \in 1..4 |-> block_data[i].color_sequence] = <<1, 1, 2, 3>>
    /\ [i \in 1..4 |-> block_data[i].color_id] = <<997, 997, 999, 998>>

\* C9: the text written by write_to_file is, in this order and with nothing
\* else: the fixed header, one color-definition line per palette entry in
\* ascending palette order with the entry's r, g, b and assigned ID, the
\* fixed suffix, then one line per record in the final record order; header
\* and suffix do not depend on the image or on start_id.
C9_FileLayout ==
    Succeeded =>
        LET img == image_path
            palette == OpaqueColors(img)
            n == Cardinality(palette)
            m == Len(block_data)
            lines == output_file.lines
        IN  /\ output_file.exists
            /\ Len(lines) = 1 + n + 1 + m
            /\ lines[1] = [kind |-> "HEADER_PREFIX"]
            /\ \A i \in 1..n :
                   LET line == lines[1 + i]
                       c == <<line.r, line.g, line.b>>
                   IN  /\ line.kind = "color"
                       /\ c \in palette
                       /\ Cardinality({ d \in palette : ColorBefore(d, c) })
                              = i - 1
                       /\ line.color_id = color_to_id[c]
                       /\ line.color_id = start_id - n + i
            /\ lines[n + 2] = [kind |-> "COLOR_SUFFIX"]
            /\ \A j \in 1..m :
                   /\ lines[n + 2 + j].kind = "block"
                   /\ lines[n + 2 + j] = block_data[j]

C9_Witness ==
    /\ Succeeded
    /\ image_path = ExampleImage
    /\ start_id = 999
    /\ Len(output_file.lines) = 9
    /\ output_file.lines[2] =
           [kind |-> "color", r |-> 0, g |-> 0, b |-> 0, color_id |-> 997]
    /\ output_file.lines[4] =
           [kind |-> "color", r |-> 255, g |-> 255, b |-> 255,
            color_id |-> 999]
    /\ output_file.lines[5] = [kind |-> "COLOR_SUFFIX"]
    /\ output_file.lines[9].color_id = 998

\* C10: the GUI reports a typed failure: for a start_id in 1..999, when
\* process_image fails because the palette exceeds 512 colors extract_colors
\* reports the palette overflow, and when it fails because start_id is not
\* above the palette size it reports the ID-range failure.
ReportedByExtractColors ==
    /\ pc = "gui"
    /\ status_bar \in {"failed_start_id_insufficient",
                       "failed_too_many_colors", "extract_failed"}

C10_TypedFailureReported ==
    (ReportedByExtractColors /\ image_path.readable) =>
        LET n == PaletteSize(image_path)
        IN  /\ n > 512 =>
                   /\ status_bar = "failed_too_many_colors"
                   /\ message_box.title = "too_many_colors"
            /\ (n <= 512 /\ start_id <= n) =>
                   /\ status_bar = "failed_start_id_insufficient"
                   /\ message_box.title = "start_id_insufficient"

\* ------------------------------------------------------------ k4 claims
\* A str that UTF-8 can encode: no lone surrogate in it.
ValidText(text) == \A i \in 1..Len(text) : text[i] \notin 55296..57343

\* C11: decoding what encode_k4 returned for a valid string gives the string
\* back, and encode_k4 returns the same text whatever the time of the call.
C11_RoundTrip ==
    /\ pc = "encode_failed" => ~ValidText(level_string)
    /\ pc \in {"encoded", "roundtrip"} =>
          \A t \in Clocks :
              encode_k4(level_string, t) = [raised |-> "", value |-> k4_string]
    /\ pc = "roundtrip" => k4_result = [raised |-> "", value |-> level_string]

C11_Witness ==
    /\ pc = "roundtrip"
    /\ level_string = <<233, 10>>
    /\ clock # 0
    /\ k4_result.raised = ""

\* C12: decode_k4 either returns a string or raises ValueError; a failure of
\* any step comes out as ValueError and leaves no value behind.
C12_StringOrValueError ==
    pc \in {"decoded", "roundtrip"} =>
        \/ /\ k4_result.raised = ""
           /\ \A i \in 1..Len(k4_result.value) : k4_result.value[i] \in Nat
        \/ /\ k4_result.raised = "ValueError"
           /\ "value" \notin DOMAIN k4_result

C12_Witness ==
    /\ pc = "decoded"
    /\ k4_result.raised = "ValueError"
    /\ k4_result.cause = "gzip.BadGzipFile"

\* What is behind a k4 text: the bytes its base64 and gzip layers hold.
PayloadOf(text) ==
    LET n == Len(text) % 4
        b == urlsafe_b64decode(
                 IF n = 0 THEN text ELSE text \o [i \in 1..(4 - n) |-> "="])
    IN  IF b.raised # "" THEN b ELSE gzip_decompress(b.value)

\* C13: when the payload holds invalid UTF-8, decode_k4 succeeds and puts a
\* replacement marker where each invalid sequence was.
C13_InvalidUtf8Replaced ==
    (/\ pc = "decoded"
     /\ PayloadOf(k4_string).raised = ""
     /\ utf8_decode(PayloadOf(k4_string).value, "strict").raised # "")
    => /\ k4_result.raised = ""
       /\ k4_result.value
            = utf8_decode(PayloadOf(k4_string).value, "replace").value

\* ------------------------------------------------------ level file claims
\* The container each path of Paths names by its extension, "" for none.
ContainerOf(path) ==
    IF path \in {PathGmd, PathGmdUpper} THEN "gmd"
    ELSE IF path = PathLvl THEN "lvl"
    ELSE IF path = PathGmd2 THEN "gmd2"
    ELSE ""

UnsupportedFormat(c) ==
    /\ c.raised = "ValueError"
    /\ c.message = "unsupported file format"

\* C14: read_gmd_file and save_gmd_file go to the reader or writer that the
\* extension of the path names, whatever the file holds; with any other
\* extension they raise the unsupported-format error, having opened no file
\* and leaving every file as it was.
C14_VariantByExtension ==
    \A i \in 1..Len(calls) :
        /\ calls[i].variant = ContainerOf(file_path)
        /\ IF ContainerOf(file_path) = ""
           THEN /\ UnsupportedFormat(calls[i])
                /\ calls[i].opened = {}
                /\ calls[i].file = calls[i].before
                /\ calls[i].others
           ELSE ~UnsupportedFormat(calls[i])

\* A zip archive found at a .gmd path was read as a .gmd file.
C14_Witness ==
    /\ file_path = PathGmd
    /\ Len(calls) = 1
    /\ calls[1].op = "read"
    /\ startswith(calls[1].before.data, <<80, 75>>)
    /\ calls[1].variant = "gmd"
    /\ calls[1].raised = "ValueError"
    /\ calls[1].message = "cannot parse GMD file"

\* The two attempts of the .gmd reader on the bytes of a file.
TranscodeThenParse(data) ==
    LET text == utf8_decode(data, "strict")
    IN  IF text.raised # "" THEN text
        ELSE plistlib_loads(
                 utf8_encode(convert_gd_plist_to_standard(text.value)).value)

ParseDirectly(data) == plistlib_loads(data)

GmdReads ==
    {i \in 1..Len(calls) : /\ calls[i].op = "read"
                           /\ calls[i].variant = "gmd"
                           /\ calls[i].before.exists}

\* C15: a .gmd read returns what transcode-then-parse gives, or else what
\* parsing the bytes directly gives; when both fail it raises the parse error
\* and the failure that error carries is that of the direct parse.
C15_LastCauseWrapped ==
    \A i \in GmdReads :
        LET a == TranscodeThenParse(calls[i].before.data)
            b == ParseDirectly(calls[i].before.data)
        IN  IF a.raised = ""
            THEN calls[i].raised = "" /\ calls[i].data = a.value
            ELSE IF b.raised = ""
            THEN calls[i].raised = "" /\ calls[i].data = b.value
            ELSE /\ calls[i].raised = "ValueError"
                 /\ calls[i].message = "cannot parse GMD file"
                 /\ calls[i].cause = b.raised

LvlReads ==
    {i \in 1..Len(calls) : /\ calls[i].op = "read"
                           /\ calls[i].variant = "lvl"
                           /\ calls[i].before.exists}

\* C16: a .lvl read parses what deflate decompression gives, or else what
\* gzip decompression gives, and every failure of it is the parse error that
\* a .gmd read raises.
C16_LvlFailureIsParseError ==
    \A i \in LvlReads :
        LET deflated == zlib_decompress(calls[i].before.data)
            gunzipped == gzip_decompress(calls[i].before.data)
            plain == IF deflated.raised = "" THEN deflated ELSE gunzipped
            parsed == IF plain.raised # "" THEN plain
                      ELSE plistlib_loads(plain.value)
        IN  IF parsed.raised = ""
            THEN calls[i].raised = "" /\ calls[i].data = parsed.value
            ELSE /\ calls[i].raised = "ValueError"
                 /\ calls[i].message = "cannot parse GMD file"

\* The level.data / level.meta entries of an archive.
LevelEntries(file) ==
    {name \in {LevelDataEntry, LevelMetaEntry} :
        in_namelist(ZipFile(file.data).value, name)}

\* The entries a bundle document has a value for.
PresentFields(data) ==
    {name \in {LevelDataEntry, LevelMetaEntry} :
        LET key == IF name = LevelDataEntry THEN KeyLevelData
                   ELSE KeyMetadata
        IN  has_key(data, key) /\ get_item(data, key) # None}

\* C17: saving a bundle whose levelData or metadata is null succeeds and
\* writes no entry for that field; saving what was read from an archive
\* writes the level.data / level.meta entries the archive had.
C17_AbsentFieldsStayAbsent ==
    \A i \in 1..Len(calls) :
        (/\ calls[i].op = "save"
         /\ calls[i].variant = "gmd2"
         /\ isinstance(calls[i].data, "dict"))
        => /\ calls[i].raised = ""
           /\ LevelEntries(calls[i].file) = PresentFields(calls[i].data)
           /\ (/\ i > 1
               /\ calls[i - 1].op = "read"
               /\ calls[i - 1].raised = "")
              => LevelEntries(calls[i].file) = LevelEntries(calls[i - 1].file)

\* A document built from Bool, Int, Real, Text, Dict and List values.
RECURSIVE PlainValue(_)
PlainValue(value) ==
    /\ value # None
    /\ value.type \in {"dict", "list"} =>
           \A i \in 1..Len(value.items) :
               PlainValue(IF value.type = "dict" THEN value.items[i][2]
                          ELSE value.items[i])

\* C18: a .gmd file written by save_gmd_file for such a root Dict is read
\* back, and saving what was read writes the same bytes again.
C18_GmdRoundTrip ==
    (/\ Len(calls) >= 3
     /\ ContainerOf(file_path) = "gmd"
     /\ calls[1].op = "save" /\ calls[1].raised = ""
     /\ isinstance(calls[1].data, "dict") /\ PlainValue(calls[1].data)
     /\ calls[2].op = "read"
     /\ calls[3].op = "save")
    => /\ calls[2].raised = ""
       /\ calls[3].raised = ""
       /\ calls[3].file = calls[1].file

\* Wherever the document read and the document written both have a Dict,
\* the keys are the same in the same order, and wherever both have a List,
\* the lengths are the same.
RECURSIVE KeysKept(_, _)
KeysKept(read, written) ==
    IF isinstance(read, "dict") /\ isinstance(written, "dict")
    THEN /\ Len(written.items) = Len(read.items)
         /\ \A i \in 1..Len(read.items) :
               /\ written.items[i][1] = read.items[i][1]
               /\ KeysKept(read.items[i][2], written.items[i][2])
    ELSE IF isinstance(read, "list") /\ isinstance(written, "list")
    THEN /\ Len(written.items) = Len(read.items)
         /\ \A i \in 1..Len(read.items) :
               KeysKept(read.items[i], written.items[i])
    ELSE TRUE

\* C19: when a single-file document has been loaded, edited (with undo and
\* redo) and saved, every Dict is written with the keys it was read with,
\* in the same order, and every List with the length it was read with.
C19_EditsKeepKeys ==
    (pc = "saved" /\ ~is_gmd2 /\ editor_box = "file_saved")
    => KeysKept(loaded_data, saved_data)

\* The single digit of a part "[i]".
IsDigitIndex(part) ==
    Len(part) = 3 /\ part[1] = 91 /\ part[2] \in 48..57 /\ part[3] = 93

\* The value a path of dict keys and "[i]" list indices leads to.
RECURSIVE Resolve(_, _)
Resolve(value, path) ==
    IF path = <<>> THEN [found |-> TRUE, value |-> value]
    ELSE IF isinstance(value, "dict")
    THEN IF \E i \in 1..Len(value.items) : value.items[i][1] = path[1]
         THEN Resolve(value.items[CHOOSE i \in 1..Len(value.items) :
                                      value.items[i][1] = path[1]][2],
                      Tail(path))
         ELSE [found |-> FALSE]
    ELSE IF isinstance(value, "list")
    THEN IF IsDigitIndex(path[1]) /\ path[1][2] - 48 < Len(value.items)
         THEN Resolve(value.items[path[1][2] - 47], Tail(path))
         ELSE [found |-> FALSE]
    ELSE [found |-> FALSE]

\* A path may begin with the name of the root row; the empty path leads
\* nowhere.
Lookup(doc, path) ==
    IF path = <<>> THEN [found |-> FALSE]
    ELSE IF path[1] = <<114, 111, 111, 116>> THEN Resolve(doc, Tail(path))
    ELSE Resolve(doc, path)

\* C20: get_value_by_path and set_value_by_path never raise; for a path
\* that leads nowhere set returns False and leaves the document as it
\* was and get returns its failure value, which it never returns for a
\* value it has found.
C20_PathsTotal ==
    pc = "called"
    => /\ path_call.raised = ""
       /\ path_call.op = "set" /\ ~Lookup(loaded_data, path_call.path).found
          => /\ path_call.returned = FALSE
             /\ value_of(heap, data_dict) = loaded_data
       /\ path_call.op = "get" /\ ~Lookup(loaded_data, path_call.path).found
          => path_call.found = None
       /\ path_call.op = "get" /\ Lookup(loaded_data, path_call.path).found
          => /\ path_call.found # None
             /\ path_call.found = Lookup(loaded_data, path_call.path).value

\* The rows of the tree for a document as it was loaded, and among them
\* the paths of the leaves: the rows of neither a dict nor a list.
RowsOf(doc, bundle) ==
    tree_rows(allocate(<<>>, doc).heap, allocate(<<>>, doc).slot, bundle)

LeafPaths(doc, bundle) ==
    { row.path : row \in { r \in RowsOf(doc, bundle) :
                              r.type \notin {"dict", "list"} } }

\* C21: for the path of a leaf of the tree, at any depth, set_value_by_path
\* returns True, get_value_by_path then gives the value set, and the value
\* at the path of every other row that is not above the leaf is as before.
C21_SetLeafThenGet ==
    (/\ pc = "called"
     /\ path_call.op = "set"
     /\ path_call.path \in LeafPaths(loaded_data, is_gmd2))
    => /\ path_call.returned = TRUE
       /\ value_of(heap, get_value_by_path(heap, data_dict, path_call.path))
              = path_call.value
       /\ \A other \in LeafPaths(loaded_data, is_gmd2) \ {path_call.path} :
              value_of(heap, get_value_by_path(heap, data_dict, other))
                  = Lookup(loaded_data, other).value

\* The text of 7.5 * n for a whole number n >= 0: the bare integer 15 * n / 2
\* when n is even, floor(7.5 * n) followed by ".500000" when n is odd.
CoordinateText(n) ==
    IF n % 2 = 0
    THEN [whole |-> 15 * (n \div 2), decimals |-> ""]
    ELSE [whole |-> 15 * (n \div 2) + 7, decimals |-> "500000"]

\* C22: in every record line the X field is the text of 7.5 * col and the
\* Y field the text of 7.5 * (H - 1 - row): a bare integer when the value is
\* whole, else its integer part and exactly the six decimals 500000.
C22_CoordinateFormat ==
    Succeeded =>
        /\ Len(block_data) = Len(blocks)
        /\ \A i \in 1..Len(block_data) :
              /\ block_data[i].x_pos_str = CoordinateText(blocks[i].col)
              /\ block_data[i].y_pos_str =
                     CoordinateText(image_path.height - 1 - blocks[i].row)
              /\ block_data[i].x_pos_str.decimals \in {"", "500000"}
              /\ block_data[i].y_pos_str.decimals \in {"", "500000"}

C22_Witness ==
    /\ Succeeded
    /\ image_path.height = 3
    /\ \E i \in 1..Len(block_data) :
           /\ blocks[i].col = 0 /\ blocks[i].row = 1
           /\ block_data[i].x_pos_str = [whole |-> 0, decimals |-> ""]
           /\ block_data[i].y_pos_str = [whole |-> 7, decimals |-> "500000"]
    /\ \E i \in 1..Len(block_data) :
           /\ blocks[i].row = 0
           /\ block_data[i].y_pos_str = [whole |-> 15, decimals |-> ""]

\* Assigning end_id + i to the i-th color of the palette (i from 0), with
\* end_id = start_id - n + 1, in one pass.
DirectAssign(colors, sid) ==
    [c \in { colors[i] : i \in 1..Len(colors) } |->
        (sid - Len(colors) + 1)
            + ((CHOOSE i \in 1..Len(colors) : colors[i] = c) - 1)]

\* C23: for every palette and every start_id, accepted by process_image or
\* not, the mapping generate_color_id_mapping builds from the reversed
\* descending list is the mapping that gives the i-th color end_id + i.
C23_TwoPassEqualsDirect ==
    (Returned /\ extract_result.success) =>
        /\ generate_color_id_mapping(colors_list, start_id)
               = DirectAssign(colors_list, start_id)
        /\ result.success =>
               color_to_id = DirectAssign(colors_list, start_id)

C23_Witness ==
    /\ Succeeded
    /\ colors_list = <<Black, Grey, White>>
    /\ start_id = 4
    /\ color_to_id = DirectAssign(<<Black, Grey, White>>, 4)
    /\ color_to_id[Black] = 2 /\ color_to_id[White] = 4

\* The value the path of a row leads to: the first part of the path of a
\* single file is the name of the root row, and every further part is a
\* dict key or a list index of the document.
Followed(doc, bundle, path) ==
    IF bundle THEN Resolve(doc, path) ELSE Resolve(doc, Tail(path))

\* C24: for the path of every row of the tree, get_value_by_path returns
\* the value that following the path from the root of the document leads
\* to, also when a Dict has a key 'root' and when the root Dict is empty.
C24_GetFollowsPath ==
    (/\ pc = "called"
     /\ path_call.op = "get"
     /\ path_call.path \in
            { row.path : row \in RowsOf(loaded_data, is_gmd2) })
    => /\ Followed(loaded_data, is_gmd2, path_call.path).found
       /\ path_call.found
              = Followed(loaded_data, is_gmd2, path_call.path).value

\* What the undo and the redo of a command make of the document.
AfterUndo(objects, data, command) ==
    set_value_by_path(objects, data, command.path, command.old_value).heap

AfterRedo(objects, data, command) ==
    set_value_by_path(objects, data, command.path, command.new_value).heap

\* C25: when a command that edits an existing leaf has been done (pushed
\* or redone), its undo gives back the whole document as it was before,
\* and its redo after that gives the document as it was after the edit.
C25_RedoUndoRestores ==
    [][(/\ undo_index' = undo_index + 1
        /\ undo_stack'[undo_index'].path
               \in LeafPaths(value_of(heap, data_dict), is_gmd2))
       => /\ value_of(AfterUndo(heap', data_dict', undo_stack'[undo_index']),
                      data_dict')
                 = value_of(heap, data_dict)
          /\ value_of(AfterRedo(AfterUndo(heap', data_dict',
                                          undo_stack'[undo_index']),
                                data_dict', undo_stack'[undo_index']),
                      data_dict')
                 = value_of(heap', data_dict')]_vars

\* Whether two stacks hold the same commands; the values of two commands
\* may be of different types.
SameSlot(a, b) ==
    IF a = None \/ b = None THEN a = None /\ b = None
    ELSE /\ a.type = b.type
         /\ IF a.type = "ref" THEN a.id = b.id
            ELSE IF a.type = "float" THEN a.halves = b.halves
            ELSE a.v = b.v

SameCommands(done, other) ==
    /\ Len(done) = Len(other)
    /\ \A i \in 1..Len(done) :
          /\ done[i].path = other[i].path
          /\ SameSlot(done[i].old_value, other[i].old_value)
          /\ SameSlot(done[i].new_value, other[i].new_value)

C27_NoLookupMiss ==
    Done =>
        /\ raised = ""
        /\ result.success =>
              /\ ~LookupMisses(blocks, color_to_id)
              /\ { blocks[i].color : i \in 1..Len(blocks) }
                     = OpaqueColors(image_path)
              /\ { colors_list[i] : i \in 1..Len(colors_list) }
                     = OpaqueColors(image_path)
              /\ DOMAIN color_to_id = OpaqueColors(image_path)
              /\ Len(block_data) = Len(blocks)
              /\ Len(color_data) = Len(colors_list)

C27_Witness ==
    /\ Succeeded
    /\ image_path.width = 1 /\ image_path.height = 3
    /\ image_path.pixels = << <<10, 20, 30, 128>>, <<0, 0, 0, 255>>,
                              <<10, 20, 30, 128>> >>
    /\ Len(block_data) = 1
    /\ colors_list = <<Black>>
    /\ block_data[1].color_id = color_to_id[Black]

\* C28: a call of process_image that returns a failure leaves the output
\* file and its directory as they were; a call that succeeds leaves the
\* directory and the written file; and for an image with more than 512
\* colors the failure returned is the palette overflow, whatever the
\* start_id is.
C28_WritesOnlyOnSuccess ==
    [][pc' = "done" =>
          /\ raised' = ""
          /\ ~result'.success => output_file' = output_file
          /\ result'.success =>
                /\ output_file'.dir /\ output_file'.exists
                /\ output_file'.lines = file_text(color_data', block_data')
          /\ (image_path'.readable /\ PaletteSize(image_path') > MaxColors)
             => /\ ~result'.success
                /\ result'.error =
                       <<"too_many_colors", PaletteSize(image_path')>>]_vars

\* The palette overflow was reported for a start_id above 999, and the
\* file of an earlier run is still there.
C28_Witness ==
    /\ Done
    /\ raised = ""
    /\ ~result.success
    /\ PaletteSize(image_path) = 513
    /\ start_id = 1000
    /\ result.error = <<"too_many_colors", 513>>
    /\ output_file = OldFile

\* C29: for an image with 1..512 colors and the start_id of the spin box,
\* the range field shows a valid range exactly when process_image accepts
\* the start_id for the image, and then the range shown is the range
\* process_image reports.
C29_RangeFieldAgrees ==
    (/\ pc = "gui"
     /\ current_image_path # None
     /\ image_path = current_image_path
     /\ start_id = start_id_spinbox
     /\ result # None
     /\ raised = ""
     /\ image_path.readable
     /\ gui_color_count = PaletteSize(image_path)
     /\ gui_color_count \in 1..MaxColors)
    => /\ (id_range_edit.text[1] = "range") <=> result.success
       /\ result.success
          => id_range_edit.text = <<"range", result.end_id, result.start_id>>

\* C30: on success the reported range has 1 <= end_id <= start_id <= 999
\* and end_id..start_id is exactly the set of the IDs given to the colors
\* of the palette, also for an image without an opaque pixel.
C30_ReportedRange ==
    Succeeded =>
        /\ result.start_id = start_id
        /\ 1 <= result.end_id
        /\ result.end_id <= result.start_id
        /\ result.start_id <= MaxStartId
        /\ { color_to_id[c] : c \in DOMAIN color_to_id }
               = result.end_id..result.start_id

====
